---------------------------- MODULE Spec2Model ----------------------------
(***************************************************************************)
(* rsliding: N-dimensional sliding-window statistics over dense float      *)
(* arrays with NaN, through the Python facade classes Padding,             *)
(* Convolution, SlidingMean, SlidingMedian, SlidingStandardDeviation and   *)
(* SlidingSigmaClipping (src/python/src/rsliding).                         *)
(*                                                                         *)
(* The facade (kernel validation, sigma resolution, border mapping, the    *)
(* call into the compiled engine `_bindings`) is translated from the       *)
(* Python source.  The engine itself is not part of the source tree: its   *)
(* padder, window walker and reducers are modelled from spec.md sections   *)
(* 4.1-4.3 and anchored to the expected arrays of src/tests/test_wheels.py.*)
(*                                                                         *)
(* Floats are modelled as exact rationals (records nan/rt/n/d); a square   *)
(* root that is not rational is kept symbolically (rt = TRUE).  Rounding   *)
(* is therefore outside the model.                                         *)
(***************************************************************************)
EXTENDS Integers, Sequences, FiniteSets, TLC

VARIABLES
    op,      \* the facade class being constructed
    args,    \* the constructor's arguments
    self,    \* the object's fields, as assigned so far
    pc,      \* position in __init__
    exc,     \* the exception __init__ raised, if any
    calls,   \* the calls made into the engine (_bindings), in order
    result,  \* what the result property returns
    workers, \* the engine's reducer workers: range of cells and next cell
    buffer,  \* the engine's output buffer(s) while the workers fill them
    clip,    \* the clipping loop of one window: coordinate, kept set, steps
    padded_data   \* the engine's padded_data copy of the data while the padder builds it

vars == <<op, args, self, pc, exc, calls, result, workers, buffer, clip, padded_data>>

---------------------------------------------------------------------------
(* Bounds of the model.                                                    *)

\* longest 1-D data array enumerated
MaxLen == 2

---------------------------------------------------------------------------
(* Floating-point values: NaN, rationals n/d, and square roots sqrt(n/d).  *)

Abs(i) == IF i < 0 THEN -i ELSE i

RECURSIVE GCD(_, _)
GCD(a, b) == IF b = 0 THEN a ELSE GCD(b, a % b)

NaN == [nan |-> TRUE, rt |-> FALSE, n |-> 0, d |-> 1]

\* the rational n/d (d # 0) in lowest terms
Q(n, d) ==
    LET g == GCD(Abs(n), Abs(d))
        s == IF d < 0 THEN -1 ELSE 1
    IN  [nan |-> FALSE, rt |-> FALSE, n |-> (s * n) \div g, d |-> (s * d) \div g]

F(i) == Q(i, 1)

IsNaN(x) == x.nan

\* IEEE arithmetic on the rational fragment: NaN is absorbing, x/0 with
\* x = 0 is NaN.  (A non-zero numerator over zero does not occur: every
\* division of the reducers is by a weight sum that is zero only together
\* with its numerator.)
RAdd(x, y) == IF x.nan \/ y.nan THEN NaN ELSE Q(x.n * y.d + y.n * x.d, x.d * y.d)
RSub(x, y) == IF x.nan \/ y.nan THEN NaN ELSE Q(x.n * y.d - y.n * x.d, x.d * y.d)
RMul(x, y) == IF x.nan \/ y.nan THEN NaN ELSE Q(x.n * y.n, x.d * y.d)
RDiv(x, y) == IF x.nan \/ y.nan \/ y.n = 0 THEN NaN ELSE Q(x.n * y.d, x.d * y.n)
RLt(x, y)  == ~x.nan /\ ~y.nan /\ x.n * y.d < y.n * x.d
RLe(x, y)  == ~x.nan /\ ~y.nan /\ x.n * y.d <= y.n * x.d

\* floor of the integer square root
RECURSIVE ISqrtFrom(_, _)
ISqrtFrom(i, r) == IF (r + 1) * (r + 1) > i THEN r ELSE ISqrtFrom(i, r + 1)
ISqrt(i) == ISqrtFrom(i, 0)

\* sqrt of a non-negative rational: exact when it is rational, symbolic
\* (rt = TRUE, standing for sqrt(n/d)) otherwise
RSqrt(x) ==
    IF x.nan \/ x.n < 0 THEN NaN
    ELSE LET a == ISqrt(x.n)
             b == ISqrt(x.d)
         IN  IF a * a = x.n /\ b * b = x.d THEN Q(a, b)
             ELSE [nan |-> FALSE, rt |-> TRUE, n |-> x.n, d |-> x.d]

\* the square of a value produced by RSqrt
RSquare(x) == IF x.nan THEN NaN ELSE IF x.rt THEN Q(x.n, x.d) ELSE RMul(x, x)

---------------------------------------------------------------------------
(* Dense arrays: shape, element type, contiguity flag and the elements in  *)
(* row-major order (spec.md section 3, "Array").                           *)

RECURSIVE Prod(_)
Prod(s) == IF s = <<>> THEN 1 ELSE Head(s) * Prod(Tail(s))

Size(shape) == Prod(shape)

Ndim(A) == Len(A.shape)

\* the stride of axis a: product of the sizes of the later axes
Stride(shape, a) == Prod(SubSeq(shape, a + 1, Len(shape)))

\* linear offset of the multi-index c (0-based on every axis)
Ravel(c, shape) ==
    LET RECURSIVE Sum(_)
        Sum(a) == IF a > Len(shape) THEN 0 ELSE c[a] * Stride(shape, a) + Sum(a + 1)
    IN  Sum(1)

\* multi-index of the linear offset l
Unravel(l, shape) == [a \in 1..Len(shape) |-> (l \div Stride(shape, a)) % shape[a]]

\* every multi-index of the shape, in row-major order
RowMajor(shape) == [l \in 1..Size(shape) |-> Unravel(l - 1, shape)]

Coords(shape) == {Unravel(l, shape) : l \in 0..(Size(shape) - 1)}

MkArray(shape, dtype, flat) ==
    [shape |-> shape, dtype |-> dtype, contig |-> TRUE, flat |-> flat]

At(A, c) == A.flat[Ravel(c, A.shape) + 1]

\* np.ones(shape, dtype)
Ones(shape, dtype) == MkArray(shape, dtype, [l \in 1..Size(shape) |-> F(1)])

\* placeholder for "no array"
NoArray == MkArray(<<0>>, "none", <<>>)

\* a 1-D float64 array from its elements
Arr1(seq) == MkArray(<<Len(seq)>>, "float64", seq)

---------------------------------------------------------------------------
(* Python values that are "a float, None, or a sentinel".                  *)

None        == [k |-> "None", v |-> F(0)]
\* the module's sentinel _USE_SIGMA (sliding_sigma_clipping.py)
_USE_SIGMA  == [k |-> "_USE_SIGMA", v |-> F(0)]
Float(x)    == [k |-> "float", v |-> x]
Int_(i)     == [k |-> "int", v |-> F(i)]
IsNone(o)   == o.k = "None"
\* an optional argument the caller left out, and the value it is bound to
Omitted     == [k |-> "omitted", v |-> F(0)]
Given(x, default) == IF x = Omitted THEN default ELSE x

---------------------------------------------------------------------------
(* Kernel descriptors (utils.KernelType, and what a caller may pass        *)
(* instead): the Python type, the integer(s) for an int or a tuple, the    *)
(* shape and row-major weights for an ndarray.                             *)

KInt(k)   == [type |-> "int", dims |-> <<k>>, dtype |-> "", w |-> <<>>]
KTuple(t) == [type |-> "tuple", dims |-> t, dtype |-> "", w |-> <<>>]
KArray(shape, dtype, w) == [type |-> "ndarray", dims |-> shape, dtype |-> dtype, w |-> w]
KOther    == [type |-> "str", dims |-> <<>>, dtype |-> "", w |-> <<>>]

\* the ndarray a KArray descriptor stands for
AsArray(kernel) == MkArray(kernel.dims, kernel.dtype, [i \in 1..Len(kernel.w) |-> F(kernel.w[i])])

\* "any(k <= 0 or k % 2 == 0 for k in dims)"
AnyBadDim(dims) == \E i \in 1..Len(dims) : dims[i] <= 0 \/ dims[i] % 2 = 0

NoExc == [type |-> "none", at |-> ""]
Exc(type, at) == [type |-> type, at |-> at]

\* _check_kernel without the parity test on a tuple's dimensions
_check_kernel_raises_tuple_parity(data, kernel) ==
    IF kernel.type = "int" THEN
        IF kernel.dims[1] <= 0 \/ kernel.dims[1] % 2 = 0
        THEN Exc("ValueError", "_check_kernel") ELSE NoExc
    ELSE IF kernel.type = "tuple" THEN
        IF \E i \in 1..Len(kernel.dims) : kernel.dims[i] <= 0
        THEN Exc("ValueError", "_check_kernel")
        ELSE IF Len(kernel.dims) # Ndim(data) THEN Exc("ValueError", "_check_kernel")
        ELSE NoExc
    ELSE IF kernel.type = "ndarray" THEN
        IF AnyBadDim(kernel.dims) THEN Exc("ValueError", "_check_kernel")
        ELSE IF Len(kernel.dims) # Ndim(data) THEN Exc("ValueError", "_check_kernel")
        ELSE NoExc
    ELSE Exc("TypeError", "_check_kernel")

\* the exception BaseCheck._check_kernel raises for the kernel, NoExc if none
_check_kernel_raises(data, kernel) ==
    IF kernel.type = "int" THEN
        IF kernel.dims[1] <= 0 \/ kernel.dims[1] % 2 = 0
        THEN Exc("ValueError", "_check_kernel") ELSE NoExc
    ELSE IF kernel.type = "tuple" THEN
        IF AnyBadDim(kernel.dims) THEN Exc("ValueError", "_check_kernel")
        ELSE IF Len(kernel.dims) # Ndim(data) THEN Exc("ValueError", "_check_kernel")
        ELSE NoExc
    ELSE IF kernel.type = "ndarray" THEN
        IF AnyBadDim(kernel.dims) THEN Exc("ValueError", "_check_kernel")
        ELSE IF Len(kernel.dims) # Ndim(data) THEN Exc("ValueError", "_check_kernel")
        ELSE NoExc
    ELSE Exc("TypeError", "_check_kernel")

\* _check_kernel building (kernel,) instead of (kernel,) * ndim for an int
_check_kernel_int_rank1(data, kernel) ==
    IF kernel.type = "int"
    THEN Ones(<<kernel.dims[1]>>, data.dtype)
    ELSE IF kernel.type = "tuple"
    THEN Ones(kernel.dims, data.dtype)
    ELSE AsArray(kernel)

\* what BaseCheck._check_kernel returns when it does not raise
_check_kernel(data, kernel) ==
    IF kernel.type = "int"
    THEN Ones([a \in 1..Ndim(data) |-> kernel.dims[1]], data.dtype)
    ELSE IF kernel.type = "tuple"
    THEN Ones(kernel.dims, data.dtype)
    ELSE AsArray(kernel)

\* np.ascontiguousarray(A, dtype=np.float64)
ascontiguousarray_float64(A) == [A EXCEPT !.contig = TRUE, !.dtype = "float64"]

\* np.ascontiguousarray: same shape, element type and elements, C order
ascontiguousarray(A) == [A EXCEPT !.contig = TRUE]

\* BaseCheck._make_contiguous
_make_contiguous(s) ==
    [s EXCEPT !.data = ascontiguousarray(s.data), !.kernel = ascontiguousarray(s.kernel)]

---------------------------------------------------------------------------
(* The engine (_bindings), part 1: padder and window walker                *)
(* (spec.md sections 4.1 and 4.2).                                         *)

\* padding half-width of every axis: p_a = (k_a - 1) / 2
HalfWidths(kshape) == [a \in 1..Len(kshape) |-> (kshape[a] - 1) \div 2]

\* reflection that repeats the edge element (-1 -> 0, -2 -> 1, s -> s-1)
Mirror_edge_repeated(i, s) ==
    LET P == 2 * s
        m == ((i % P) + P) % P
    IN  IF m < s THEN m ELSE P - 1 - m

\* reflect-101: mirror about the edge element without repeating it,
\* extended by repeated mirroring with period 2(s-1).  On a singleton axis
\* the spec leaves reflection undefined: see ReflectUndefined.
Mirror(i, s) ==
    IF s = 1 THEN 0
    ELSE LET P == 2 * (s - 1)
             m == ((i % P) + P) % P
         IN  IF m < s THEN m ELSE P - m

\* replicate: clamp to the nearest edge element
Clamp(i, s) == IF i < 0 THEN 0 ELSE IF i >= s THEN s - 1 ELSE i

\* reflect is requested on an axis whose half-width reaches its length
\* (p_a >= s_a): undefined on an axis of length 1 that needs padding, and on
\* longer axes the padder either extends the reflection or refuses
ReflectUndefined(data, kernel, pad_mode) ==
    /\ pad_mode = "reflect"
    /\ \E a \in 1..Ndim(data) : (kernel.shape[a] - 1) \div 2 >= data.shape[a]

\* pad(data, half_widths, policy): the padded copy
Pad(data, kernel, pad_mode, pad_value) ==
    LET s      == data.shape
        p      == HalfWidths(kernel.shape)
        pshape == [a \in 1..Len(s) |-> s[a] + 2 * p[a]]
        Src(c) == [a \in 1..Len(s) |-> c[a] - p[a]]
        Inside(i) == \A a \in 1..Len(s) : 0 <= i[a] /\ i[a] < s[a]
        Elem(c) ==
            LET i == Src(c)
            IN  IF pad_mode = "constant"
                THEN IF Inside(i) THEN At(data, i) ELSE pad_value
                ELSE IF pad_mode = "reflect"
                THEN At(data, [a \in 1..Len(s) |-> Mirror(i[a], s[a])])
                ELSE At(data, [a \in 1..Len(s) |-> Clamp(i[a], s[a])])
    IN  MkArray(pshape, data.dtype,
                [l \in 1..Size(pshape) |-> Elem(Unravel(l - 1, pshape))])

\* the pairs (x, w) of the window at output coordinate o, in row-major order
\* of the kernel offsets j: x = padded[o + j], w = kernel[j]; pairs with
\* w = 0 are skipped.  c marks the pair of the window's own centre sample.
Walk(padded, kernel, o) ==
    LET ks    == kernel.shape
        p     == HalfWidths(ks)
        Pair(l) ==
            LET j == Unravel(l - 1, ks)
            IN  [x |-> At(padded, [a \in 1..Len(ks) |-> o[a] + j[a]]),
                 w |-> kernel.flat[l],
                 c |-> (j = p)]
        all   == [l \in 1..Size(ks) |-> Pair(l)]
        NonZero(q) == q.w.n # 0
    IN  SelectSeq(all, NonZero)

\* the pairs whose sample is not NaN
NotNaNPair(q) == ~q.x.nan
Valid(pairs) == SelectSeq(pairs, NotNaNPair)

---------------------------------------------------------------------------
(* The engine, part 2: reducers (spec.md section 4.3).                     *)

RECURSIVE SumWX(_)
SumWX(ps) == IF ps = <<>> THEN F(0) ELSE RAdd(RMul(Head(ps).w, Head(ps).x), SumWX(Tail(ps)))

RECURSIVE SumW(_)
SumW(ps) == IF ps = <<>> THEN F(0) ELSE RAdd(Head(ps).w, SumW(Tail(ps)))

RECURSIVE SumWDev2(_, _)
SumWDev2(ps, mu) ==
    IF ps = <<>> THEN F(0)
    ELSE LET dev == RSub(Head(ps).x, mu)
         IN  RAdd(RMul(Head(ps).w, RMul(dev, dev)), SumWDev2(Tail(ps), mu))

\* 4.3.1 weighted sum over the non-NaN samples; NaN when there is none
WeightedSum(pairs) ==
    LET v == Valid(pairs) IN IF v = <<>> THEN NaN ELSE SumWX(v)

\* 4.3.2 weighted mean over the non-NaN samples; NaN on an empty window
WeightedMean(pairs) ==
    LET v == Valid(pairs) IN RDiv(SumWX(v), SumW(v))

\* 4.3.3 population variance about the weighted mean, denominator sum(w)
WeightedVariance(pairs) ==
    LET v == Valid(pairs) IN RDiv(SumWDev2(v, WeightedMean(v)), SumW(v))

\* 4.3.3 the pair (sqrt(variance), mean)
WeightedStd(pairs) == <<RSqrt(WeightedVariance(pairs)), WeightedMean(pairs)>>

\* stable insertion of q into a sequence sorted ascending by x
RECURSIVE InsertSorted(_, _)
InsertSorted(q, sorted) ==
    IF sorted = <<>> THEN <<q>>
    ELSE IF RLt(q.x, Head(sorted).x) THEN <<q>> \o sorted
    ELSE <<Head(sorted)>> \o InsertSorted(q, Tail(sorted))

\* pairs sorted ascending by x, ties in walker order
RECURSIVE SortPairs(_)
SortPairs(ps) ==
    IF ps = <<>> THEN <<>>
    ELSE InsertSorted(ps[Len(ps)], SortPairs(SubSeq(ps, 1, Len(ps) - 1)))

\* cumulative weight of the first k pairs
CumW(ps, k) == SumW(SubSeq(ps, 1, k))

\* 4.3.4 weighted median of the non-NaN samples: the sample at which the
\* cumulative weight first reaches W/2, averaged with the next sample when
\* the cumulative weight there is exactly W/2 (the split point; for unit
\* weights and an even count, the two central order statistics, as the
\* expected medians of test_wheels.py require)
WeightedMedian(pairs) ==
    LET v    == SortPairs(Valid(pairs))
        half == RDiv(SumW(v), F(2))
        ks   == {k \in 1..Len(v) : RLe(half, CumW(v, k))}
        k    == CHOOSE i \in ks : \A j \in ks : i <= j
    IN  IF v = <<>> \/ ks = {} THEN NaN
        ELSE IF CumW(v, k) = half /\ k < Len(v)
        THEN RDiv(RAdd(v[k].x, v[k + 1].x), F(2))
        ELSE v[k].x

\* 4.3.5 the centre of the kept samples, per center choice
ClipCenter(kept, center_choice) ==
    IF center_choice = "mean" THEN WeightedMean(kept) ELSE WeightedMedian(kept)

\* 4.3.5 step 3: q lies outside [mu - sigma_lower*sigma, mu + sigma_upper*sigma]
\* (a side whose limit is None does not clip).  The comparison with the
\* square root sigma is made on squares: the limits are non-negative.
IsClipped(q, mu, variance, sigma_upper, sigma_lower) ==
    LET below == RSub(mu, q.x)
        above == RSub(q.x, mu)
        Beyond(dev, lim) ==
            /\ RLt(F(0), dev)
            /\ RLt(RMul(RMul(lim, lim), variance), RMul(dev, dev))
    IN  \/ ~IsNone(sigma_lower) /\ Beyond(below, sigma_lower.v)
        \/ ~IsNone(sigma_upper) /\ Beyond(above, sigma_upper.v)

\* 4.3.5 the iteration: stops with fewer than 2 kept samples, after
\* max_iters steps, or at the first step that clips nothing
RECURSIVE ClipLoop(_, _, _, _, _, _)
ClipLoop(kept, center_choice, sigma_upper, sigma_lower, max_iters, it) ==
    IF Len(kept) < 2 \/ (~IsNone(max_iters) /\ ~RLt(F(it), max_iters.v)) THEN kept
    ELSE LET mu       == ClipCenter(kept, center_choice)
             variance == WeightedVariance(kept)
             Keep(q)  == ~IsClipped(q, mu, variance, sigma_upper, sigma_lower)
             next     == SelectSeq(kept, Keep)
         IN  IF next = kept THEN kept
             ELSE ClipLoop(next, center_choice, sigma_upper, sigma_lower, max_iters, it + 1)

\* 4.3.5 the outcome at one coordinate: the final centre, and whether the
\* window's own centre sample (own) was NaN or was clipped
ClipCell(pairs, own, center_choice, sigma_upper, sigma_lower, max_iters) ==
    LET kept0 == Valid(pairs)
        final == ClipLoop(kept0, center_choice, sigma_upper, sigma_lower, max_iters, 0)
        IsCentre(q) == q.c
        InKept(ps)  == SelectSeq(ps, IsCentre) # <<>>
    IN  [mu   |-> ClipCenter(final, center_choice),
         mask |-> own.nan \/ (InKept(kept0) /\ ~InKept(final))]

---------------------------------------------------------------------------
(* The engine, part 3: driver and entry points (spec.md 4.4, 4.5, 6).      *)
(* Every output cell is the reducer applied to that cell's window.         *)

Windows(data, kernel, pad_mode, pad_value) ==
    LET padded == Pad(data, kernel, pad_mode, pad_value)
    IN  [l \in 1..Size(data.shape) |-> Walk(padded, kernel, Unravel(l - 1, data.shape))]

rust_padding(data, kernel, pad_mode, pad_value) == Pad(data, kernel, pad_mode, pad_value)

rust_convolution(data, kernel, pad_mode, pad_value, threads) ==
    LET win == Windows(data, kernel, pad_mode, pad_value)
    IN  MkArray(data.shape, data.dtype, [l \in DOMAIN win |-> WeightedSum(win[l])])

rust_sliding_mean(data, kernel, pad_mode, pad_value, neumaier, threads) ==
    LET win == Windows(data, kernel, pad_mode, pad_value)
    IN  MkArray(data.shape, data.dtype, [l \in DOMAIN win |-> WeightedMean(win[l])])

rust_sliding_median(data, kernel, pad_mode, pad_value, threads) ==
    LET win == Windows(data, kernel, pad_mode, pad_value)
    IN  MkArray(data.shape, data.dtype, [l \in DOMAIN win |-> WeightedMedian(win[l])])

\* returns the pair (standard deviation, mean)
rust_sliding_standard_deviation(data, kernel, pad_mode, pad_value, neumaier, threads) ==
    LET win == Windows(data, kernel, pad_mode, pad_value)
    IN  <<MkArray(data.shape, data.dtype, [l \in DOMAIN win |-> WeightedStd(win[l])[1]]),
          MkArray(data.shape, data.dtype, [l \in DOMAIN win |-> WeightedStd(win[l])[2]])>>

\* returns the pair (array, mask).  The mask is true where the cell's own
\* sample was NaN or was clipped (4.3.5).  A masked cell holds the final centre
\* of its window and every other cell keeps its input value
\* (SlidingSigmaClipping's docstring: "The clipped data is swapped with the
\* final mode of the corresponding window"), except that a cell whose final
\* centre is NaN holds NaN ("If the final mode value is NaN, then the
\* corresponding output is NaN").
rust_sliding_sigma_clipping(data, kernel, center_choice, pad_mode, pad_value, sigma_upper, sigma_lower, max_iters, threads) ==
    LET win   == Windows(data, kernel, pad_mode, pad_value)
        cells == [l \in DOMAIN win |->
                    ClipCell(win[l], data.flat[l], center_choice, sigma_upper, sigma_lower,
                             max_iters)]
    IN  <<MkArray(data.shape, data.dtype,
                  [l \in DOMAIN win |->
                      IF cells[l].mask \/ cells[l].mu = NaN THEN cells[l].mu
                      ELSE data.flat[l]]),
          MkArray(data.shape, "bool", [l \in DOMAIN win |-> cells[l].mask])>>

\* a call into the engine: the function's name and its positional arguments
Call(fn, a) == [fn |-> fn, a |-> a]

\* what the engine returns for a call
Rust(call) ==
    LET a == call.a
    IN  CASE call.fn = "padding" -> rust_padding(a[1], a[2], a[3], a[4])
          [] call.fn = "convolution" -> rust_convolution(a[1], a[2], a[3], a[4], a[5])
          [] call.fn = "sliding_mean" -> rust_sliding_mean(a[1], a[2], a[3], a[4], a[5], a[6])
          [] call.fn = "sliding_median" -> rust_sliding_median(a[1], a[2], a[3], a[4], a[5])
          [] call.fn = "sliding_standard_deviation" ->
                rust_sliding_standard_deviation(a[1], a[2], a[3], a[4], a[5], a[6])
          [] call.fn = "sliding_sigma_clipping" ->
                rust_sliding_sigma_clipping(a[1], a[2], a[3], a[4], a[5], a[6], a[7], a[8], a[9])

---------------------------------------------------------------------------
(* The facade classes: the engine call each one makes.                     *)
(* borders = None is mapped to ('constant', NaN) in every class.           *)

\* _padding forwarding the caller's pad_value whatever the borders
_padding_forwards_pad_value(s) ==
    LET pad_mode  == IF s.borders # "None" THEN s.borders ELSE "constant"
    IN  Call("padding", <<s.data, s.kernel, pad_mode, s.pad_value>>)

\* Padding._padding
_padding(s) ==
    LET pad_mode  == IF s.borders # "None" THEN s.borders ELSE "constant"
        pad_value == IF s.borders # "None" THEN s.pad_value ELSE NaN
    IN  Call("padding", <<s.data, s.kernel, pad_mode, pad_value>>)

\* _convolve with pad_mode fixed to 'constant'
_convolve_constant_mode(s) ==
    LET pad_value == IF s.borders # "None" THEN s.pad_value ELSE NaN
    IN  Call("convolution", <<s.data, s.kernel, "constant", pad_value, s.threads>>)

\* _convolve forwarding the caller's pad_value whatever the borders
_convolve_forwards_pad_value(s) ==
    LET pad_mode  == IF s.borders # "None" THEN s.borders ELSE "constant"
    IN  Call("convolution", <<s.data, s.kernel, pad_mode, s.pad_value, s.threads>>)

\* Convolution._convolve
_convolve(s) ==
    LET pad_mode  == IF s.borders # "None" THEN s.borders ELSE "constant"
        pad_value == IF s.borders # "None" THEN s.pad_value ELSE NaN
    IN  Call("convolution", <<s.data, s.kernel, pad_mode, pad_value, s.threads>>)

\* _sliding_mean calling the engine's padding entry point
_sliding_mean_calls_padding(s) ==
    LET pad_mode  == IF s.borders # "None" THEN s.borders ELSE "constant"
        pad_value == IF s.borders # "None" THEN s.pad_value ELSE NaN
    IN  Call("padding", <<s.data, s.kernel, pad_mode, pad_value>>)

\* _sliding_mean forwarding the caller's pad_value whatever the borders
_sliding_mean_forwards_pad_value(s) ==
    LET pad_mode  == IF s.borders # "None" THEN s.borders ELSE "constant"
    IN  Call("sliding_mean", <<s.data, s.kernel, pad_mode, s.pad_value, s.neumaier, s.threads>>)

\* SlidingMean._sliding_mean
_sliding_mean(s) ==
    LET pad_mode  == IF s.borders # "None" THEN s.borders ELSE "constant"
        pad_value == IF s.borders # "None" THEN s.pad_value ELSE NaN
    IN  Call("sliding_mean", <<s.data, s.kernel, pad_mode, pad_value, s.neumaier, s.threads>>)

\* _sliding_median passing the thread count in the place of pad_value
_sliding_median_threads_as_pad_value(s) ==
    LET pad_mode  == IF s.borders # "None" THEN s.borders ELSE "constant"
    IN  Call("sliding_median", <<s.data, s.kernel, pad_mode, s.threads.v, s.threads>>)

\* _sliding_median with pad_mode fixed to 'constant'
_sliding_median_constant_mode(s) ==
    LET pad_value == IF s.borders # "None" THEN s.pad_value ELSE NaN
    IN  Call("sliding_median", <<s.data, s.kernel, "constant", pad_value, s.threads>>)

\* SlidingMedian._sliding_median
_sliding_median(s) ==
    LET pad_mode  == IF s.borders # "None" THEN s.borders ELSE "constant"
        pad_value == IF s.borders # "None" THEN s.pad_value ELSE NaN
    IN  Call("sliding_median", <<s.data, s.kernel, pad_mode, pad_value, s.threads>>)

\* _sliding_standard_deviation forwarding the caller's pad_value whatever the borders
_sliding_standard_deviation_forwards_pad_value(s) ==
    LET pad_mode  == IF s.borders # "None" THEN s.borders ELSE "constant"
    IN  Call("sliding_standard_deviation",
             <<s.data, s.kernel, pad_mode, s.pad_value, s.neumaier, s.threads>>)

\* SlidingStandardDeviation._sliding_standard_deviation
_sliding_standard_deviation(s) ==
    LET pad_mode  == IF s.borders # "None" THEN s.borders ELSE "constant"
        pad_value == IF s.borders # "None" THEN s.pad_value ELSE NaN
    IN  Call("sliding_standard_deviation",
             <<s.data, s.kernel, pad_mode, pad_value, s.neumaier, s.threads>>)

\* _sigma_clipping with center_choice fixed to 'median'
_sigma_clipping_unlimited(s) ==
    LET pad_mode  == IF s.borders # "None" THEN s.borders ELSE "constant"
        pad_value == IF s.borders # "None" THEN s.pad_value ELSE NaN
    IN  Call("sliding_sigma_clipping",
             <<s.data, s.kernel, s.center_choice, pad_mode, pad_value,
               s.sigma_upper, s.sigma_lower, None, s.threads>>)

_sigma_clipping_median_only(s) ==
    LET pad_mode  == IF s.borders # "None" THEN s.borders ELSE "constant"
        pad_value == IF s.borders # "None" THEN s.pad_value ELSE NaN
    IN  Call("sliding_sigma_clipping",
             <<s.data, s.kernel, "median", pad_mode, pad_value,
               s.sigma_upper, s.sigma_lower, s.max_iters, s.threads>>)

\* _sigma_clipping passing the two limits in each other's place
_sigma_clipping_limits_swapped(s) ==
    LET pad_mode  == IF s.borders # "None" THEN s.borders ELSE "constant"
        pad_value == IF s.borders # "None" THEN s.pad_value ELSE NaN
    IN  Call("sliding_sigma_clipping",
             <<s.data, s.kernel, s.center_choice, pad_mode, pad_value,
               s.sigma_lower, s.sigma_upper, s.max_iters, s.threads>>)

\* SlidingSigmaClipping._sigma_clipping
_sigma_clipping(s) ==
    LET pad_mode  == IF s.borders # "None" THEN s.borders ELSE "constant"
        pad_value == IF s.borders # "None" THEN s.pad_value ELSE NaN
    IN  Call("sliding_sigma_clipping",
             <<s.data, s.kernel, s.center_choice, pad_mode, pad_value,
               s.sigma_upper, s.sigma_lower, s.max_iters, s.threads>>)

\* the engine call of the "# RUN" line of each class's __init__
RunCall(cls, s) ==
    CASE cls = "Padding" -> _padding(s)
      [] cls = "Convolution" -> _convolve(s)
      [] cls = "SlidingMean" -> _sliding_mean(s)
      [] cls = "SlidingMedian" -> _sliding_median(s)
      [] cls = "SlidingStandardDeviation" -> _sliding_standard_deviation(s)
      [] cls = "SlidingSigmaClipping" -> _sigma_clipping(s)

\* what the object exposes once the engine has returned ret:
\*   kind "ndarray": a is the array (padded, convolution, mean, median, clipped)
\*   kind "std_mean": a is standard_deviation, b is mean
\*   kind "MaskedArray": a is the data, b the mask
NoResult == [kind |-> "none", a |-> NoArray, b |-> NoArray]

\* no clipping loop is running
NoClip == [o |-> <<>>, K |-> {}, steps |-> 0, clipped |-> <<>>]

\* the returned pair unpacked in the wrong order
StdResult_swapped(ret) == [kind |-> "std_mean", a |-> ret[2], b |-> ret[1]]

\* SlidingStandardDeviation.__init__:
\*   self._standard_deviation, self._mean = self._sliding_standard_deviation()
StdResult(ret) == [kind |-> "std_mean", a |-> ret[1], b |-> ret[2]]

\* the MaskedArray wrap under the inverted test of masked_array
ClippedResult_inverted(s, ret) ==
    IF ~s.masked_array
    THEN [kind |-> "MaskedArray", a |-> ret[1], b |-> ret[2]]
    ELSE [kind |-> "ndarray", a |-> ret[1], b |-> NoArray]

\* SlidingSigmaClipping._sigma_clipping, after the engine call
ClippedResult(s, ret) ==
    IF s.masked_array
    THEN [kind |-> "MaskedArray", a |-> ret[1], b |-> ret[2]]
    ELSE [kind |-> "ndarray", a |-> ret[1], b |-> NoArray]

RunResult(cls, s, ret) ==
    CASE cls = "SlidingStandardDeviation" -> StdResult(ret)
      [] cls = "SlidingSigmaClipping" -> ClippedResult(s, ret)
      [] OTHER -> [kind |-> "ndarray", a |-> ret, b |-> NoArray]

---------------------------------------------------------------------------
(* __init__ of the facade classes.                                         *)

Unset == [k |-> "unset", v |-> F(0)]

\* the object before any attribute is assigned
NewObject ==
    [data |-> NoArray, kernel |-> NoArray, borders |-> "unset", pad_value |-> F(0),
     threads |-> Unset, neumaier |-> FALSE, masked_array |-> FALSE,
     center_choice |-> "unset", sigma_lower |-> Unset, sigma_upper |-> Unset,
     max_iters |-> Unset]

\* the lower limit resolved from the upper argument
ResolveSigmaLower_from_upper(a) ==
    IF a.sigma_lower = _USE_SIGMA THEN a.sigma ELSE a.sigma_upper

\* SlidingSigmaClipping.__init__:
\*   self._sigma_lower = sigma if sigma_lower is _USE_SIGMA else sigma_lower
ResolveSigmaLower(a) == IF a.sigma_lower = _USE_SIGMA THEN a.sigma ELSE a.sigma_lower

\*   self._sigma_upper = sigma if sigma_upper is _USE_SIGMA else sigma_upper
ResolveSigmaUpper(a) == IF a.sigma_upper = _USE_SIGMA THEN a.sigma ELSE a.sigma_upper

\* "# CHECK" by truthiness (not x) instead of identity (x is None)
SigmaCheckFails_truthiness(s) ==
    /\ IsNone(s.sigma_upper) \/ s.sigma_upper.v = F(0)
    /\ IsNone(s.sigma_lower) \/ s.sigma_lower.v = F(0)

\* "# CHECK": both resolved limits are None
SigmaCheckFails(s) == IsNone(s.sigma_upper) /\ IsNone(s.sigma_lower)

\* the attribute assignments that follow self._kernel = ..., per class
StoreFields_threads_default(cls, s, a) ==
    LET common == [s EXCEPT !.borders = a.borders, !.pad_value = a.pad_value]
        thr    == [common EXCEPT !.threads = Int_(1)]
    IN  CASE cls = "Padding" -> common
          [] cls \in {"Convolution", "SlidingMedian"} -> thr
          [] cls \in {"SlidingMean", "SlidingStandardDeviation"} ->
                [thr EXCEPT !.neumaier = a.neumaier]
          [] cls = "SlidingSigmaClipping" ->
                [thr EXCEPT !.masked_array = a.masked_array,
                            !.center_choice = a.center_choice,
                            !.sigma_lower = ResolveSigmaLower(a),
                            !.sigma_upper = ResolveSigmaUpper(a),
                            !.max_iters = a.max_iters]

StoreFields(cls, s, a) ==
    LET common == [s EXCEPT !.borders = a.borders, !.pad_value = a.pad_value]
        thr    == [common EXCEPT !.threads = Given(a.threads, Int_(1))]
    IN  CASE cls = "Padding" -> common
          [] cls \in {"Convolution", "SlidingMedian"} -> thr
          [] cls \in {"SlidingMean", "SlidingStandardDeviation"} ->
                [thr EXCEPT !.neumaier = a.neumaier]
          [] cls = "SlidingSigmaClipping" ->
                [thr EXCEPT !.masked_array = a.masked_array,
                            !.center_choice = a.center_choice,
                            !.sigma_lower = ResolveSigmaLower(a),
                            !.sigma_upper = ResolveSigmaUpper(a),
                            !.max_iters = a.max_iters]

---------------------------------------------------------------------------
(* Inputs.                                                                 *)

\* test_wheels.py, fixture data_2d: the 4x4 float32 data
TestData ==
    MkArray(<<4, 4>>, "float32",
            <<NaN,  F(3), F(1), F(0),
              F(5), F(2), NaN,  F(4),
              F(1), NaN,  F(5), F(3),
              F(1), F(0), F(3), F(4)>>)

\* kernel1 without "kernel1[1, 1] = 0."
Kernel1_centre_kept == KArray(<<3, 3>>, "float32", <<1, 1, 1,  1, 1, 1,  1, 1, 1>>)

\* test_wheels.py, fixture data_2d: kernel1, 3x3 ones with kernel1[1, 1] = 0
Kernel1 == KArray(<<3, 3>>, "float32", <<1, 1, 1,  1, 0, 1,  1, 1, 1>>)

\* test_wheels.py, fixture data_2d: kernel2, 3x3 ones with kernel2[0, 1] = 0
\* and kernel2[1, 2] = 0
Kernel2 == KArray(<<3, 3>>, "float32", <<1, 0, 1,  1, 1, 0,  1, 1, 1>>)

\* a 3x3 array of ones, given as an ndarray
OnesKernel == KArray(<<3, 3>>, "float32", <<1, 1, 1,  1, 1, 1,  1, 1, 1>>)

\* sample values of the enumerated 1-D data
DataVals == {NaN, F(0), F(1), F(3)}

\* every 1-D float64 array of length 1..MaxLen over DataVals
Data1D == UNION {{Arr1(f) : f \in [1..n -> DataVals]} : n \in 1..MaxLen}

\* the same elements behind a non-contiguous view (e.g. a[::2])
NonContiguous(A) == [A EXCEPT !.contig = FALSE]

\* 1-D weight kernels: identity, zero, asymmetric 0/1 and non-unit weights
Weights1D ==
    {<<0, 1, 0>>, <<0, 0, 0>>, <<0, 1, 1>>, <<1, 1, 0>>, <<1, 0, 1>>,
     <<1, 2, 1>>, <<2, 1, 1>>}

\* valid descriptors for 1-D data
Kernels1D == {KInt(1), KInt(3)} \cup {KArray(<<3>>, "float64", w) : w \in Weights1D}

\* valid descriptors for 2-D data
Kernels2D == {Kernel1, Kernel2, OnesKernel, KInt(3), KTuple(<<3, 3>>), KTuple(<<1, 3>>)}

\* descriptors of every kind, valid or not
AnyKernel ==
    Kernels1D \cup Kernels2D
    \cup {KInt(k) : k \in -1..4}
    \cup {KTuple(<<k>>) : k \in -1..3}
    \cup {KTuple(<<>>), KTuple(<<3, 2>>), KTuple(<<0, 3>>), KTuple(<<3, 3, 3>>)}
    \cup {KArray(<<2>>, "float64", <<1, 1>>), KArray(<<1>>, "float64", <<2>>),
          KArray(<<3, 2>>, "float64", <<1, 1, 1, 1, 1, 1>>),
          KArray(<<0>>, "float64", <<>>), KOther}

Classes ==
    {"Padding", "Convolution", "SlidingMean", "SlidingMedian",
     "SlidingStandardDeviation", "SlidingSigmaClipping"}

\* (borders, pad_value) pairs
BorderPads ==
    {<<"None", F(0)>>, <<"None", F(1)>>, <<"constant", F(0)>>, <<"constant", F(1)>>,
     <<"reflect", F(0)>>, <<"replicate", F(0)>>}

BorderPads1D ==
    {<<"None", F(1)>>, <<"constant", F(1)>>, <<"reflect", F(0)>>, <<"replicate", F(0)>>}

SigmaArgs == {_USE_SIGMA, None, Float(F(0)), Float(F(2))}

\* a constructor call; the defaults are those of the signatures
Input(cls, data, kernel, bp) ==
    [cls |-> cls, data |-> data, kernel |-> kernel,
     borders |-> bp[1], pad_value |-> bp[2],
     force_contiguous |-> TRUE, threads |-> Int_(1), neumaier |-> FALSE,
     center_choice |-> "median", sigma |-> Float(F(3)),
     sigma_lower |-> _USE_SIGMA, sigma_upper |-> _USE_SIGMA,
     max_iters |-> Int_(5), masked_array |-> FALSE]

\* the sliding operations on enumerated 1-D data
Inputs1D ==
    {[Input(cls, d, k, bp) EXCEPT !.sigma = Float(F(1))] :
        cls \in Classes, d \in Data1D, k \in Kernels1D, bp \in BorderPads1D}

\* the sliding operations on the test data, as the tests call them
Inputs2D ==
    {[Input(cls, TestData, k, bp) EXCEPT !.threads = Int_(2), !.sigma = Float(F(1))] :
        cls \in Classes, k \in Kernels2D, bp \in BorderPads}

\* every kind of kernel descriptor, contiguous or not
InputsKernel ==
    {[Input(cls, d, k, <<"constant", F(0)>>) EXCEPT !.force_contiguous = fc] :
        cls \in Classes,
        d \in {Arr1(<<F(1), F(3)>>), NonContiguous(Arr1(<<F(1), F(3)>>)), TestData},
        k \in AnyKernel, fc \in BOOLEAN}

\* every way of giving the clipping limits
InputsSigma ==
    {[Input("SlidingSigmaClipping", Arr1(<<F(0), F(1), F(3)>>), k, <<"reflect", F(0)>>)
        EXCEPT !.sigma_lower = lo, !.sigma_upper = up, !.sigma = Float(F(sg)),
               !.masked_array = ma, !.center_choice = cc] :
        k \in {KInt(3), KInt(2)}, lo \in SigmaArgs, up \in SigmaArgs, sg \in {1, 3},
        ma \in BOOLEAN, cc \in {"median", "mean"}}

\* sigma-clipping of the test data under every iteration limit
InputsIters ==
    {[Input("SlidingSigmaClipping", TestData, k, bp)
        EXCEPT !.max_iters = mi, !.center_choice = cc, !.sigma = Float(F(1)),
               !.masked_array = TRUE] :
        k \in {OnesKernel, Kernel1}, bp \in {<<"constant", F(0)>>, <<"None", F(0)>>},
        mi \in {None, Int_(0), Int_(1), Int_(2)}, cc \in {"median", "mean"}}

\* convolutions with signed weights (difference kernels)
InputsSigned ==
    {Input("Convolution", d, KArray(<<3>>, "float64", w), bp) :
        d \in Data1D, w \in {<<1, 0, -1>>, <<-1, 2, -1>>}, bp \in BorderPads1D}

\* thread counts on either side of the smallest accepted one
InputsThreadCount ==
    {[Input(cls, d, KInt(3), bp) EXCEPT !.threads = t, !.sigma = Float(F(1))] :
        cls \in {"Convolution", "SlidingMean", "SlidingMedian",
                 "SlidingStandardDeviation", "SlidingSigmaClipping"},
        d \in {Arr1(<<F(0), F(1), F(3)>>), Arr1(<<F(1)>>)},
        bp \in {<<"reflect", F(0)>>, <<"None", F(0)>>},
        t \in {Int_(0 - 1), Int_(0), Int_(1), Int_(2), None}}

\* paddings whose half-width stays below, reaches and exceeds the axis length
InputsReflect ==
    {Input("Padding", d, k, <<"reflect", F(0)>>) :
        d \in {Arr1(<<F(1), F(3)>>), Arr1(<<F(0), F(1), F(3)>>)},
        k \in {KInt(3), KInt(5), KInt(7)}}
    \cup {Input("Padding", MkArray(<<2, 3>>, "float64", <<F(0), F(1), F(3), F(5), F(2), F(4)>>),
                 k, <<"reflect", F(0)>>) :
             k \in {KTuple(<<5, 3>>), KTuple(<<1, 5>>), KTuple(<<3, 7>>)}}

Inputs ==
    Inputs1D \cup Inputs2D \cup InputsKernel \cup InputsSigma \cup InputsSigned
    \cup InputsIters \cup InputsThreadCount \cup InputsReflect

---------------------------------------------------------------------------
(* Expected results of test_wheels.py for TestData (row-major).  The tests *)
(* compare with rtol = atol = 1e-5; here the fractions are exact.          *)

\* _known_mean_constant: kernel1, borders='constant' (pad_value 0)
KnownMeanConstant ==
    <<Q(5, 4), Q(4, 3),  Q(9, 7),  Q(5, 7),
      F(1),    F(3),     Q(18, 7), Q(9, 7),
      Q(8, 7), Q(17, 7), Q(8, 3),  Q(16, 7),
      Q(1, 7), Q(10, 7), Q(12, 7), Q(11, 8)>>

\* _known_mean_constant_asym: kernel2, borders='constant'
KnownMeanConstantAsym ==
    <<Q(7, 6), F(2),     Q(5, 3),  Q(5, 6),
      Q(3, 2), Q(14, 5), Q(13, 5), Q(13, 6),
      Q(4, 7), F(2),     F(3),     Q(5, 2),
      Q(1, 6), F(1),     F(1),     Q(12, 7)>>

\* _know_mean_none: kernel1, borders=None
KnownMeanNone ==
    <<Q(10, 3), Q(8, 3),  Q(9, 4),  Q(5, 2),
      F(2),     F(3),     Q(18, 7), Q(9, 4),
      F(2),     Q(17, 7), Q(8, 3),  F(4),
      Q(1, 2),  Q(5, 2),  F(3),     Q(11, 3)>>

\* _known_median_constant: kernel1, borders='constant'
KnownMedianConstant ==
    <<F(0),    Q(1, 2), F(0), F(0),
      Q(1, 2), F(3),    F(3), F(0),
      F(0),    F(2),    F(3), F(3),
      F(0),    F(1),    F(0), F(0)>>

\* _known_median_constant_asym: kernel2, borders='constant'
KnownMedianConstantAsym ==
    <<F(0),    F(2), Q(3, 2), F(0),
      Q(1, 2), F(2), F(3),    F(2),
      F(0),    F(1), Q(7, 2), F(3),
      F(0),    F(0), F(0),    F(0)>>

\* _known_median_none: kernel1, borders=None
KnownMedianNone ==
    <<F(3),    F(2), Q(5, 2), Q(5, 2),
      F(2),    F(3), F(3),    F(2),
      Q(3, 2), F(2), F(3),    F(4),
      Q(1, 2), F(2), Q(7, 2), F(3)>>

\* _known_std_constant: kernel1, borders='constant'; each cell is np.std of
\* the listed samples
KnownStdConstant ==
    <<<<0, 0, 0, 0, 0, 2, 3, 5>>, <<0, 0, 0, 1, 2, 5>>, <<0, 0, 0, 0, 2, 3, 4>>,
      <<0, 0, 0, 0, 0, 1, 4>>,
      <<0, 0, 0, 1, 2, 3>>, <<1, 1, 3, 5, 5>>, <<0, 1, 2, 3, 3, 4, 5>>,
      <<0, 0, 0, 0, 1, 3, 5>>,
      <<0, 0, 0, 0, 1, 2, 5>>, <<0, 1, 1, 2, 3, 5, 5>>, <<0, 2, 3, 3, 4, 4>>,
      <<0, 0, 0, 3, 4, 4, 5>>,
      <<0, 0, 0, 0, 0, 0, 1>>, <<0, 0, 0, 1, 1, 3, 5>>, <<0, 0, 0, 0, 3, 4, 5>>,
      <<0, 0, 0, 0, 0, 3, 3, 5>>>>

\* _known_std_constant_asym: kernel2, borders='constant'
KnownStdConstantAsym ==
    <<<<0, 0, 0, 0, 2, 5>>, <<0, 0, 2, 3, 5>>, <<0, 0, 1, 2, 3, 4>>, <<0, 0, 0, 0, 1, 4>>,
      <<0, 0, 0, 1, 3, 5>>, <<1, 1, 2, 5, 5>>, <<0, 2, 3, 3, 5>>, <<0, 0, 1, 3, 4, 5>>,
      <<0, 0, 0, 0, 1, 1, 2>>, <<0, 1, 1, 3, 5>>, <<0, 2, 3, 4, 4, 5>>,
      <<0, 0, 3, 3, 4, 5>>,
      <<0, 0, 0, 0, 0, 1>>, <<0, 0, 0, 0, 1, 1, 5>>, <<0, 0, 0, 0, 3, 3>>,
      <<0, 0, 0, 0, 3, 4, 5>>>>

\* _known_std_none: kernel1, borders=None
KnownStdNone ==
    <<<<2, 3, 5>>, <<1, 2, 5>>, <<0, 2, 3, 4>>, <<1, 4>>,
      <<1, 2, 3>>, <<1, 1, 3, 5, 5>>, <<0, 1, 2, 3, 3, 4, 5>>, <<0, 1, 3, 5>>,
      <<0, 1, 2, 5>>, <<0, 1, 1, 2, 3, 5, 5>>, <<0, 2, 3, 3, 4, 4>>, <<3, 4, 4, 5>>,
      <<0, 1>>, <<1, 1, 3, 5>>, <<0, 3, 4, 5>>, <<3, 3, 5>>>>

RECURSIVE SumInts(_)
SumInts(xs) == IF xs = <<>> THEN 0 ELSE Head(xs) + SumInts(Tail(xs))

\* np.std(xs) squared: the population variance  E[x^2] - E[x]^2
NpVar(xs) ==
    LET n  == Len(xs)
        s1 == SumInts(xs)
        s2 == SumInts([i \in 1..n |-> xs[i] * xs[i]])
    IN  Q(n * s2 - s1 * s1, n * n)

---------------------------------------------------------------------------
(* The state machine: one constructor call.                                *)

Init ==
    /\ args \in Inputs
    /\ op = args.cls
    /\ self = NewObject
    /\ pc = "init"
    /\ exc = NoExc
    /\ calls = <<>>
    /\ result = NoResult
    /\ workers = <<>>
    /\ buffer = <<>>
    /\ clip = NoClip
    /\ padded_data = <<>>

\* self._data = data; self._kernel = self._check_kernel(kernel), returning
CheckKernel ==
    /\ pc = "init"
    /\ _check_kernel_raises(args.data, args.kernel) = NoExc
    /\ self' = [self EXCEPT !.data = args.data,
                            !.kernel = _check_kernel(args.data, args.kernel)]
    /\ pc' = "checked"
    /\ UNCHANGED <<op, args, exc, calls, result, workers, buffer, clip, padded_data>>

\* self._data = data; self._kernel = self._check_kernel(kernel), raising
CheckKernelRaises ==
    /\ pc = "init"
    /\ _check_kernel_raises(args.data, args.kernel) # NoExc
    /\ self' = [self EXCEPT !.data = args.data]
    /\ exc' = _check_kernel_raises(args.data, args.kernel)
    /\ pc' = "raised"
    /\ UNCHANGED <<op, args, calls, result, workers, buffer, clip, padded_data>>

\* the remaining attribute assignments, without a failing "# CHECK"
Store ==
    /\ pc = "checked"
    /\ self' = StoreFields(op, self, args)
    /\ ~(op = "SlidingSigmaClipping" /\ SigmaCheckFails(self'))
    /\ pc' = "stored"
    /\ UNCHANGED <<op, args, exc, calls, result, workers, buffer, clip, padded_data>>

\* SlidingSigmaClipping: the assignments, then "# CHECK" raises ValueError
StoreRaises ==
    /\ pc = "checked"
    /\ op = "SlidingSigmaClipping"
    /\ self' = StoreFields(op, self, args)
    /\ SigmaCheckFails(self')
    /\ exc' = Exc("ValueError", "__init__")
    /\ pc' = "raised"
    /\ UNCHANGED <<op, args, calls, result, workers, buffer, clip, padded_data>>

\* if force_contiguous: self._make_contiguous()
MakeContiguous ==
    /\ pc = "stored"
    /\ self' = IF args.force_contiguous THEN _make_contiguous(self) ELSE self
    /\ pc' = "ready"
    /\ UNCHANGED <<op, args, exc, calls, result, workers, buffer, clip, padded_data>>

\* "# RUN": the engine call and the stored result
\* the engine refuses a thread budget below 1 (spec.md section 7, ConfigError);
\* None stands for one worker per core
ThreadsRejected(call) ==
    LET t == call.a[Len(call.a)]
    IN  call.fn # "padding" /\ ~IsNone(t) /\ t.v.n < 1

Run ==
    /\ pc = "ready"
    /\ LET call == RunCall(op, self)
       IN  /\ ~ThreadsRejected(call)
           /\ calls' = Append(calls, call)
           /\ result' = RunResult(op, self, Rust(call))
    /\ pc' = "done"
    /\ UNCHANGED <<op, args, self, exc, workers, buffer, clip, padded_data>>

\* "# RUN" with reflect on an axis no longer than the half-width: the engine
\* may refuse instead
\* (spec.md section 7, BorderError)
RunBorderError ==
    /\ pc = "ready"
    /\ LET call == RunCall(op, self)
       IN  /\ ReflectUndefined(call.a[1], call.a[2],
                               IF op = "SlidingSigmaClipping" THEN call.a[4] ELSE call.a[3])
           /\ calls' = Append(calls, call)
    /\ exc' = Exc("BorderError", "_bindings")
    /\ pc' = "raised"
    /\ UNCHANGED <<op, args, self, result, workers, buffer, clip, padded_data>>

\* "# RUN" with a thread count below 1: the engine reports a configuration
\* error before any output exists (spec.md section 7, ConfigError)
RunConfigError ==
    /\ pc = "ready"
    /\ LET call == RunCall(op, self)
       IN  /\ ThreadsRejected(call)
           /\ calls' = Append(calls, call)
    /\ exc' = Exc("ConfigError", "_bindings")
    /\ pc' = "raised"
    /\ UNCHANGED <<op, args, self, result, workers, buffer, clip, padded_data>>

Next ==
    \/ CheckKernel
    \/ CheckKernelRaises
    \/ Store
    \/ StoreRaises
    \/ MakeContiguous
    \/ Run
    \/ RunBorderError
    \/ RunConfigError

Spec == Init /\ [][Next]_vars

---------------------------------------------------------------------------
(* Vocabulary of the properties.                                           *)

Done == pc = "done"

\* the one engine call of a finished construction
TheCall == calls[1]

\* pad_mode and pad_value as the engine received them
CallPadMode(call)  == IF call.fn = "sliding_sigma_clipping" THEN call.a[4] ELSE call.a[3]
CallPadValue(call) == IF call.fn = "sliding_sigma_clipping" THEN call.a[5] ELSE call.a[4]

\* the object a constructor call builds when nothing raises
Constructed(a) ==
    LET s0 == [NewObject EXCEPT !.data = a.data, !.kernel = _check_kernel(a.data, a.kernel)]
        s1 == StoreFields(a.cls, s0, a)
    IN  IF a.force_contiguous THEN _make_contiguous(s1) ELSE s1

\* the result property of the object a constructor call builds
ResultOf(a) ==
    LET s == Constructed(a) IN RunResult(a.cls, s, Rust(RunCall(a.cls, s)))

\* the sample the border policy supplies at data index i (in bounds: the
\* data element): 'constant' the pad value, None nothing (NaN), 'replicate'
\* the nearest edge element, 'reflect' the mirror image about the edge element
\* (defined while the half-width is below the axis length)
BorderSample(data, i, borders, pad_value) ==
    LET s == data.shape
    IN  IF \A a \in 1..Len(s) : 0 <= i[a] /\ i[a] < s[a] THEN At(data, i)
        ELSE CASE borders = "constant" -> pad_value
               [] borders = "None" -> NaN
               [] borders = "replicate" ->
                    At(data, [a \in 1..Len(s) |->
                                IF i[a] < 0 THEN 0 ELSE IF i[a] >= s[a] THEN s[a] - 1 ELSE i[a]])
               [] borders = "reflect" ->
                    At(data, [a \in 1..Len(s) |->
                                IF i[a] < 0 THEN 0 - i[a]
                                ELSE IF i[a] >= s[a] THEN 2 * (s[a] - 1) - i[a] ELSE i[a]])

\* the effective window at output coordinate o: the kernel offsets j with
\* w_j # 0 whose aligned sample x_j, at o + j - centre (kernel not flipped),
\* is not NaN
EffectiveWindow(data, kernel, borders, pad_value, o) ==
    LET ks == kernel.shape
        All == {[j |-> j,
                 w |-> At(kernel, j),
                 x |-> BorderSample(data, [a \in 1..Len(ks) |-> o[a] + j[a] - (ks[a] - 1) \div 2],
                                    borders, pad_value)] : j \in Coords(ks)}
    IN  {e \in All : e.w # F(0) /\ e.x # NaN}

RECURSIVE SetSumW(_)
SetSumW(S) ==
    IF S = {} THEN F(0)
    ELSE LET e == CHOOSE e \in S : TRUE IN RAdd(e.w, SetSumW(S \ {e}))

RECURSIVE SetSumWX(_)
SetSumWX(S) ==
    IF S = {} THEN F(0)
    ELSE LET e == CHOOSE e \in S : TRUE IN RAdd(RMul(e.w, e.x), SetSumWX(S \ {e}))

RECURSIVE SetSumWDev2(_, _)
SetSumWDev2(S, mu) ==
    IF S = {} THEN F(0)
    ELSE LET e == CHOOSE e \in S : TRUE
         IN  RAdd(RMul(e.w, RMul(RSub(e.x, mu), RSub(e.x, mu))), SetSumWDev2(S \ {e}, mu))

\* (sum of w_j x_j) / (sum of w_j) over the effective window, NaN if empty
MeanOf(S) == IF S = {} THEN NaN ELSE RDiv(SetSumWX(S), SetSumW(S))

\* (sum of w_j (x_j - mu)^2) / (sum of w_j) over the effective window
VarianceOf(S) == IF S = {} THEN NaN ELSE RDiv(SetSumWDev2(S, MeanOf(S)), SetSumW(S))

\* the window of the finished call at o, under the caller's border policy
WindowAt(o) == EffectiveWindow(self.data, self.kernel, args.borders, args.pad_value, o)

\* the output cell at coordinate o of an array shaped like the data
Cell(A, o) == At(A, o)

---------------------------------------------------------------------------
(* Properties of the facade.                                               *)

\* C1: for each facade class, constructing with borders=None gives exactly
\* the result of borders='constant' with pad_value=NaN: the engine receives
\* ('constant', NaN) and the caller's pad_value is ignored; with any other
\* borders the engine receives the caller's borders and pad_value unchanged.
C1_BordersNoneIsConstantNaN ==
    Done =>
        /\ args.borders = "None" =>
              /\ CallPadMode(TheCall) = "constant"
              /\ CallPadValue(TheCall) = NaN
              /\ result = ResultOf([args EXCEPT !.borders = "constant", !.pad_value = NaN])
        /\ args.borders # "None" =>
              /\ CallPadMode(TheCall) = args.borders
              /\ CallPadValue(TheCall) = args.pad_value

\* a finished Padding with borders=None and pad_value=1 whose result is not
\* what 'constant' with the caller's pad_value gives
C1_Witness ==
    /\ Done
    /\ op = "Padding"
    /\ args.borders = "None"
    /\ args.pad_value = F(1)
    /\ result # ResultOf([args EXCEPT !.borders = "constant"])

Even(k) == \E m \in -8..8 : k = 2 * m

\* a finished Padding under the reflect policy, every axis at least 2 long
ReflectCase ==
    /\ Done
    /\ op = "Padding"
    /\ args.borders = "reflect"
    /\ \A a \in 1..Ndim(self.data) : self.data.shape[a] >= 2

\* m is the image of index j on an axis of length s: an index of the axis
\* that j reaches by mirroring about the two edge elements any number of
\* times, i.e. j = m or j = -m up to a multiple of the period 2(s-1)
IsMirrorImage(m, j, s) ==
    /\ 0 <= m /\ m < s
    /\ \E q \in -8..8 : j = q * 2 * (s - 1) + m \/ j = q * 2 * (s - 1) - m

\* the half-width of some axis reaches the axis length
HalfWidthReachesLength ==
    \E a \in 1..Ndim(self.data) : HalfWidths(self.kernel.shape)[a] >= self.data.shape[a]

KernelValueInvalid ==
    LET k == args.kernel
    IN  \/ k.type = "int" /\ (k.dims[1] <= 0 \/ Even(k.dims[1]))
        \/ /\ k.type \in {"tuple", "ndarray"}
           /\ \/ \E i \in 1..Len(k.dims) : k.dims[i] <= 0 \/ Even(k.dims[i])
              \/ Len(k.dims) # Len(args.data.shape)

\* the descriptor is no int, tuple or ndarray
KernelTypeInvalid == args.kernel.type \notin {"int", "tuple", "ndarray"}

\* C2: an invalid kernel descriptor is rejected before any sliding operation
\* runs: ValueError for an int, tuple or ndarray with a non-positive or even
\* dimension or a rank other than the data's, TypeError for any other type;
\* the engine is never called and no result is produced.
C2_InvalidKernelRejected ==
    (pc # "init" /\ (KernelValueInvalid \/ KernelTypeInvalid)) =>
        /\ pc = "raised"
        /\ exc.type = IF KernelTypeInvalid THEN "TypeError" ELSE "ValueError"
        /\ calls = <<>>
        /\ result = NoResult

\* an ndarray kernel with odd positive dimensions but the wrong rank, rejected
C2_Witness ==
    /\ pc = "raised"
    /\ args.kernel.type = "ndarray"
    /\ ~AnyBadDim(args.kernel.dims)
    /\ Len(args.kernel.dims) # Ndim(args.data)
    /\ exc.type = "ValueError"

\* the descriptor is valid for the data
KernelValid == ~KernelValueInvalid /\ ~KernelTypeInvalid

\* C3: for a valid descriptor _check_kernel returns, for an int k, all ones
\* of shape (k, ..., k) with the data's rank; for a tuple, all ones of that
\* shape; for an ndarray, the array itself, weights unchanged.
C3_CheckKernelReturn ==
    (pc # "init" /\ KernelValid) =>
        LET k == args.kernel
            AllOnes == \A l \in 1..Len(self.kernel.flat) : self.kernel.flat[l] = F(1)
        IN  /\ exc.at # "_check_kernel"
            /\ Len(self.kernel.shape) = Len(args.data.shape)
            /\ Len(self.kernel.flat) = Size(self.kernel.shape)
            /\ k.type = "int" =>
                  /\ \A a \in 1..Len(self.kernel.shape) : self.kernel.shape[a] = k.dims[1]
                  /\ AllOnes
            /\ k.type = "tuple" => self.kernel.shape = k.dims /\ AllOnes
            /\ k.type = "ndarray" =>
                  /\ self.kernel.shape = k.dims
                  /\ \A l \in 1..Len(k.w) : self.kernel.flat[l] = F(k.w[l])

\* the int 3 on the 2-D test data has become the 3x3 array of ones
C3_Witness ==
    /\ pc = "checked"
    /\ args.kernel = KInt(3)
    /\ args.data = TestData
    /\ self.kernel.shape = <<3, 3>>

\* a limit as the docstring resolves it: the sentinel means 'sigma'
Resolved(limit) == IF limit = _USE_SIGMA THEN args.sigma ELSE limit

\* C4: SlidingSigmaClipping rejects the call with ValueError whenever both
\* resolved limits are None, and then never calls the engine; when at least
\* one limit is not None (0 included) the limits check accepts the call.
C4_BothNoneRejected ==
    op = "SlidingSigmaClipping" =>
        /\ (IsNone(Resolved(args.sigma_lower)) /\ IsNone(Resolved(args.sigma_upper))) =>
              /\ calls = <<>>
              /\ pc \in {"init", "checked"} \/ (pc = "raised" /\ exc.type = "ValueError")
        /\ ~(IsNone(Resolved(args.sigma_lower)) /\ IsNone(Resolved(args.sigma_upper))) =>
              /\ exc # Exc("ValueError", "__init__")
              /\ pc = "checked" => ENABLED Store

\* both limits given as None with a valid kernel: rejected at the check
C4_Witness ==
    /\ op = "SlidingSigmaClipping"
    /\ args.sigma_lower = None
    /\ args.sigma_upper = None
    /\ pc = "raised"
    /\ exc = Exc("ValueError", "__init__")
    /\ calls = <<>>

\* C5: the lower (upper) limit forwarded to the engine is 'sigma' when
\* sigma_lower (sigma_upper) is the default sentinel, the given number when
\* one is given, and None when None is given; each side depends on its own
\* argument only.
C5_SigmaForwarded ==
    (Done /\ op = "SlidingSigmaClipping") =>
        /\ TheCall.a[7] = (CASE args.sigma_lower.k = "_USE_SIGMA" -> args.sigma
                             [] args.sigma_lower.k = "float" -> args.sigma_lower
                             [] args.sigma_lower.k = "None" -> None)
        /\ TheCall.a[6] = (CASE args.sigma_upper.k = "_USE_SIGMA" -> args.sigma
                             [] args.sigma_upper.k = "float" -> args.sigma_upper
                             [] args.sigma_upper.k = "None" -> None)

\* lower left at the sentinel with sigma = 1, upper given as 2
C5_Witness ==
    /\ Done
    /\ op = "SlidingSigmaClipping"
    /\ args.sigma = Float(F(1))
    /\ args.sigma_lower = _USE_SIGMA
    /\ args.sigma_upper = Float(F(2))
    /\ TheCall.a[7] = Float(F(1))
    /\ TheCall.a[6] = Float(F(2))

---------------------------------------------------------------------------
(* Properties of the reducers.                                             *)

OutCoords == Coords(args.data.shape)

\* C6: at every output coordinate the sliding mean is (sum of w_j x_j) /
\* (sum of w_j) over exactly the offsets with w_j # 0 whose aligned sample
\* (kernel not flipped, centre on the coordinate, out-of-bounds samples from
\* the border policy) is not NaN, and NaN when there is no such offset; for
\* symmetric and asymmetric kernels, borders='constant' and borders=None.
C6_SlidingMean ==
    (Done /\ op = "SlidingMean" /\ args.borders \in {"constant", "None"}) =>
        /\ result.a.shape = args.data.shape
        /\ \A o \in OutCoords : Cell(result.a, o) = MeanOf(WindowAt(o))

\* the asymmetric kernel2 on the test data gives the test's expected means
C6_Witness ==
    /\ Done
    /\ op = "SlidingMean"
    /\ args.data = TestData
    /\ args.kernel = Kernel2
    /\ args.borders = "constant"
    /\ args.pad_value = F(0)
    /\ result.a.flat = KnownMeanConstantAsym

\* the window's samples sorted ascending
RECURSIVE SortSet(_)
SortSet(S) ==
    IF S = {} THEN <<>>
    ELSE LET e == CHOOSE e \in S : \A f \in S : RLe(e.x, f.x)
         IN  <<e>> \o SortSet(S \ {e})

\* the smallest k whose cumulative weight reaches W/2
ReachIndex(v) ==
    LET half == RDiv(SumW(v), F(2))
    IN  CHOOSE k \in 1..Len(v) :
            /\ RLe(half, CumW(v, k))
            /\ \A i \in 1..(k - 1) : ~RLe(half, CumW(v, i))

\* the median as first stated: x_k*, but the mean of x_{k*-1} and x_k* when
\* the cumulative weight BEFORE k* is exactly W/2
MedianBefore(S) ==
    IF S = {} THEN NaN
    ELSE LET v == SortSet(S)
             k == ReachIndex(v)
         IN  IF k > 1 /\ CumW(v, k - 1) = RDiv(SumW(v), F(2))
             THEN RDiv(RAdd(v[k - 1].x, v[k].x), F(2))
             ELSE v[k].x

\* the median as amended: x_k*, but the mean of x_k* and x_{k*+1} when the
\* cumulative weight AT k* is exactly W/2
MedianAt(S) ==
    IF S = {} THEN NaN
    ELSE LET v == SortSet(S)
             k == ReachIndex(v)
         IN  IF CumW(v, k) = RDiv(SumW(v), F(2))
             THEN RDiv(RAdd(v[k].x, v[k + 1].x), F(2))
             ELSE v[k].x

\* the ordinary median: the central order statistic, or the mean of the two
\* central ones when the count is even
OrdinaryMedian(S) ==
    LET v == SortSet(S)
        n == Len(v)
    IN  IF n = 0 THEN NaN
        ELSE IF n % 2 = 1 THEN v[(n + 1) \div 2].x
        ELSE RDiv(RAdd(v[n \div 2].x, v[n \div 2 + 1].x), F(2))

UnitWeights(S) == \A e \in S : e.w = F(1)

MedianCase == Done /\ op = "SlidingMedian" /\ args.borders \in {"constant", "None", "replicate"}

\* C7 as stated: the median is x_k* for the smallest k* whose cumulative
\* weight reaches W/2, except that it is (x_{k*-1} + x_k*) / 2 when the
\* cumulative weight before k* equals W/2; NaN on an empty sample set.
C7_Original ==
    MedianCase => \A o \in OutCoords : Cell(result.a, o) = MedianBefore(WindowAt(o))

\* C7 (amended): at every output coordinate the sliding median of the
\* non-NaN, non-zero-weight samples, sorted ascending with total weight W, is
\* x_k* for the smallest k* whose cumulative weight reaches W/2, except that
\* it is (x_k* + x_{k*+1}) / 2 when the cumulative weight at k* equals W/2
\* exactly; NaN on an empty sample set; for all-ones weights it is the
\* ordinary median.
C7_SlidingMedian ==
    MedianCase =>
        \A o \in OutCoords :
            /\ Cell(result.a, o) = MedianAt(WindowAt(o))
            /\ UnitWeights(WindowAt(o)) => Cell(result.a, o) = OrdinaryMedian(WindowAt(o))

\* the test data under kernel1: the test's expected medians, with a cell
\* (0, 1) whose six samples 0 0 0 1 2 5 give the split value 1/2
C7_Witness ==
    /\ Done
    /\ op = "SlidingMedian"
    /\ args.data = TestData
    /\ args.kernel = Kernel1
    /\ args.borders = "constant"
    /\ args.pad_value = F(0)
    /\ result.a.flat = KnownMedianConstant
    /\ Cardinality(WindowAt(<<0, 1>>)) = 6
    /\ Cell(result.a, <<0, 1>>) = Q(1, 2)

\* C8: SlidingStandardDeviation returns (sigma, mu) with mu the SlidingMean
\* result for the same arguments and sigma^2 = (sum of w_j (x_j - mu)^2) /
\* (sum of w_j) over the same samples (population form); an empty effective
\* window gives (NaN, NaN).
C8_SlidingStd ==
    (Done /\ op = "SlidingStandardDeviation"
          /\ args.borders \in {"constant", "None", "replicate"}) =>
        /\ result.kind = "std_mean"
        /\ result.b = ResultOf([args EXCEPT !.cls = "SlidingMean"]).a
        /\ \A o \in OutCoords :
              LET S == WindowAt(o)
              IN  /\ Cell(result.b, o) = MeanOf(S)
                  /\ RSquare(Cell(result.a, o)) = VarianceOf(S)
                  /\ S = {} => Cell(result.a, o) = NaN /\ Cell(result.b, o) = NaN

\* the test data under kernel1: the test's expected deviations and means
C8_Witness ==
    /\ Done
    /\ op = "SlidingStandardDeviation"
    /\ args.data = TestData
    /\ args.kernel = Kernel1
    /\ args.borders = "constant"
    /\ args.pad_value = F(0)
    /\ result.b.flat = KnownMeanConstant
    /\ \A l \in 1..16 : RSquare(result.a.flat[l]) = NpVar(KnownStdConstant[l])

\* C9: at every output coordinate the convolution is the sum of w_j x_j over
\* the offsets whose aligned sample is not NaN, and NaN when every
\* contributing sample of the window is NaN.
C9_Convolution ==
    (Done /\ op = "Convolution" /\ args.borders \in {"constant", "None", "replicate"}) =>
        /\ result.a.shape = args.data.shape
        /\ \A o \in OutCoords :
              LET S == WindowAt(o)
              IN  Cell(result.a, o) = IF S = {} THEN NaN ELSE SetSumWX(S)

\* data (NaN, 3) under weights (1, 1, 0) with borders=None: the first window
\* holds no sample, the second holds 3 beside a NaN
C9_Witness ==
    /\ Done
    /\ op = "Convolution"
    /\ args.borders = "None"
    /\ args.data.flat = <<NaN, F(3)>>
    /\ args.kernel.w = <<1, 1, 0>>
    /\ result.a.flat = <<NaN, F(3)>>

AllOnes3x3(A) == A.shape = <<3, 3>> /\ \A l \in 1..9 : A.flat[l] = F(1)

KnownCase ==
    /\ Done
    /\ op = "SlidingMean"
    /\ args.data = TestData
    /\ args.borders = "constant"
    /\ args.pad_value = F(0)

\* C10 as stated: for the 4x4 test input, a 3x3 kernel of all ones, border
\* constant and pad_value 0, the sliding mean is the listed array.
C10_Original ==
    (KnownCase /\ AllOnes3x3(self.kernel)) => result.a.flat = KnownMeanConstant

\* C10 (amended): for the 4x4 test input, a 3x3 kernel of ones with a zero
\* centre weight, border constant and pad_value 0, the sliding mean is
\* row 0 = [5/4, 4/3, 9/7, 5/7], row 1 = [1, 3, 18/7, 9/7],
\* row 2 = [8/7, 17/7, 8/3, 16/7], row 3 = [1/7, 10/7, 12/7, 11/8].
C10_KnownMean ==
    (KnownCase /\ args.kernel = Kernel1) =>
        /\ self.kernel.flat = <<F(1), F(1), F(1), F(1), F(0), F(1), F(1), F(1), F(1)>>
        /\ result.a.shape = <<4, 4>>
        /\ result.a.flat =
              <<Q(5, 4), Q(4, 3),  Q(9, 7),  Q(5, 7),
                F(1),    F(3),     Q(18, 7), Q(9, 7),
                Q(8, 7), Q(17, 7), Q(8, 3),  Q(16, 7),
                Q(1, 7), Q(10, 7), Q(12, 7), Q(11, 8)>>

\* the sliding mean of the test data under kernel1 has been computed
C10_Witness == KnownCase /\ args.kernel = Kernel1 /\ Cell(result.a, <<0, 1>>) = Q(4, 3)

---------------------------------------------------------------------------
(* Properties of degenerate windows, shape and thread count.               *)

SlidingOps ==
    {"Convolution", "SlidingMean", "SlidingMedian", "SlidingStandardDeviation",
     "SlidingSigmaClipping"}

\* the border policy of the finished call is one BorderSample defines
BorderDefined == ~ReflectUndefined(self.data, self.kernel, args.borders)

SlidingCase == Done /\ op \in SlidingOps /\ BorderDefined

\* the effective weight at o: the sum of the kernel weights at the positions
\* whose aligned sample is not NaN
EffectiveWeight(o) == SetSumW(WindowAt(o))

NonNegativeKernel == \A l \in DOMAIN self.kernel.flat : ~RLt(self.kernel.flat[l], F(0))

\* the two arrays the engine returned for sigma-clipping
ClipArray == Rust(TheCall)[1]
ClipMask  == Rust(TheCall)[2]

\* every output array of the finished call holds NaN at o
OutputIsNaN(o) ==
    /\ Cell(result.a, o) = NaN
    /\ op = "SlidingStandardDeviation" => Cell(result.b, o) = NaN

ConstantData ==
    /\ args.data.flat[1] # NaN
    /\ \A l \in DOMAIN args.data.flat : args.data.flat[l] = args.data.flat[1]

\* the sum of the first n weights of a kernel
RECURSIVE SumFlat(_, _)
SumFlat(flat, n) == IF n = 0 THEN F(0) ELSE RAdd(SumFlat(flat, n - 1), flat[n])

KernelWeightSum == SumFlat(self.kernel.flat, Len(self.kernel.flat))

HasWeight == \E l \in DOMAIN self.kernel.flat : self.kernel.flat[l] # F(0)

\* every out-of-bounds sample equals the constant c as well
PaddedWith(c) ==
    \/ args.borders \in {"reflect", "replicate"}
    \/ args.borders = "constant" /\ args.pad_value = c

ConstantCase ==
    /\ Done
    /\ op \in {"Convolution", "SlidingMean", "SlidingMedian", "SlidingStandardDeviation"}
    /\ BorderDefined
    /\ ConstantData

\* the four equalities at o: mean = median = c, standard deviation = 0
\* (with mean c), convolution = c times wsum
ConstantOutputs(o, c, wsum) ==
    CASE op = "SlidingMean" -> Cell(result.a, o) = c
      [] op = "SlidingMedian" -> Cell(result.a, o) = c
      [] op = "SlidingStandardDeviation" -> Cell(result.a, o) = F(0) /\ Cell(result.b, o) = c
      [] op = "Convolution" -> Cell(result.a, o) = RMul(c, wsum)

ShapedLikeData(A) == A.shape = args.data.shape /\ Len(A.flat) = Size(args.data.shape)

\* C13: for every operation that slides a kernel (convolution, mean, median,
\* both arrays of the standard deviation, the array and the mask of
\* sigma-clipping), every valid kernel shape and every border mode, the
\* output has exactly the shape of the input data.
C13_ShapePreserved ==
    (Done /\ op \in SlidingOps) =>
        /\ ShapedLikeData(result.a)
        /\ op = "SlidingStandardDeviation" => ShapedLikeData(result.b)
        /\ op = "SlidingSigmaClipping" =>
              /\ ShapedLikeData(ClipArray)
              /\ ShapedLikeData(ClipMask)
              /\ self.masked_array => ShapedLikeData(result.b)

\* sigma-clipping of the 4x4 test data under a 1x3 kernel, reflect borders
C13_Witness ==
    /\ Done
    /\ op = "SlidingSigmaClipping"
    /\ args.data = TestData
    /\ args.borders = "reflect"
    /\ self.kernel.shape = <<1, 3>>
    /\ ClipArray.shape = <<4, 4>>
    /\ ClipMask.shape = <<4, 4>>

---------------------------------------------------------------------------
(* The engine's driver (spec.md 4.4, 5): one engine call at the grain of   *)
(* the workers.  After the padder, T workers fill disjoint contiguous      *)
(* ranges of the outermost axis, each cell from its own window; the call   *)
(* returns when all have finished.                                         *)

\* largest thread count, and largest number of logical cores
MaxThreads == 3

\* the indices of the outermost axis given to worker w of T (0-based,
\* contiguous, roughly equal): from RowLo to RowLo of the next worker
RowLo(w, T, s0) == (w * s0) \div T

\* a worker whose range runs one cell into the next worker's
Worker_overlapping(w, T, shape) ==
    LET row == Size(Tail(shape))
    IN  [lo |-> RowLo(w, T, shape[1]) * row + 1,
         hi |-> RowLo(w + 1, T, shape[1]) * row + 1,
         at |-> RowLo(w, T, shape[1]) * row + 1]

\* one worker: the linear cells lo..hi of its rows, and the next to write
Worker(w, T, shape) ==
    LET row == Size(Tail(shape))
    IN  [lo |-> RowLo(w, T, shape[1]) * row + 1,
         hi |-> RowLo(w + 1, T, shape[1]) * row,
         at |-> RowLo(w, T, shape[1]) * row + 1]

\* the number of workers for a thread argument: T itself, or one per
\* logical core when T is None
WorkerCounts(threads) ==
    IF IsNone(threads) THEN 1..MaxThreads ELSE {threads.v.n}

Unwritten == [set |-> FALSE, a |-> NaN, b |-> NaN]

\* what the reducer of the call writes at linear cell l: one value per
\* output buffer, computed from that cell's window
Written(fn, ret, l) ==
    IF fn \in {"sliding_standard_deviation", "sliding_sigma_clipping"}
    THEN [set |-> TRUE, a |-> ret[1].flat[l], b |-> ret[2].flat[l]]
    ELSE [set |-> TRUE, a |-> ret.flat[l], b |-> NaN]

CellOutput(call, l) == Written(call.fn, Rust(call), l)

\* the value the engine call returns once the buffers are full
Joined(call, buf) ==
    LET data == call.a[1]
        A == MkArray(data.shape, data.dtype, [l \in DOMAIN buf |-> buf[l].a])
        B == MkArray(data.shape, data.dtype, [l \in DOMAIN buf |-> buf[l].b])
    IN  CASE call.fn = "sliding_standard_deviation" -> <<A, B>>
          [] call.fn = "sliding_sigma_clipping" -> <<A, [B EXCEPT !.dtype = "bool"]>>
          [] OTHER -> A

\* sliding operations on small data for every thread argument
InputsThreads ==
    {[Input(cls, d, KInt(3), bp) EXCEPT !.threads = t, !.masked_array = TRUE,
                                        !.sigma = Float(F(1))] :
        cls \in SlidingOps,
        d \in {Arr1(<<F(0), F(1), F(3)>>), Arr1(<<NaN, F(3)>>), Arr1(<<>>),
               MkArray(<<3, 2>>, "float64", <<F(0), F(1), F(3), NaN, F(1), F(1)>>)},
        bp \in {<<"constant", F(0)>>, <<"None", F(0)>>},
        t \in {None} \cup {Int_(n) : n \in 1..MaxThreads}}

\* the object is constructed; the engine call is about to be made
InitThreads ==
    /\ args \in InputsThreads
    /\ op = args.cls
    /\ self = Constructed(args)
    /\ pc = "ready"
    /\ exc = NoExc
    /\ calls = <<>>
    /\ result = NoResult
    /\ workers = <<>>
    /\ buffer = <<>>
    /\ clip = NoClip
    /\ padded_data = <<>>

\* a cell of the padded copy the padder has not filled yet
Unpadded == [set |-> FALSE, v |-> NaN]

\* the shape of the padded copy: s_a + 2 p_a on every axis
PaddedShape(call) ==
    [a \in 1..Len(call.a[1].shape) |->
        call.a[1].shape[a] + 2 * HalfWidths(call.a[2].shape)[a]]

\* the padded copy the padder of the call builds
PadderOutput(call) ==
    IF call.fn = "sliding_sigma_clipping"
    THEN Pad(call.a[1], call.a[2], call.a[4], call.a[5])
    ELSE Pad(call.a[1], call.a[2], call.a[3], call.a[4])

\* the padded copy as the workers see it
PaddedArray(call) ==
    MkArray(PaddedShape(call), call.a[1].dtype, [l \in DOMAIN padded_data |-> padded_data[l].v])

\* the padder returns at once
PadderFinished_at_once == TRUE

\* the padder has filled every cell of the padded copy
PadderFinished == \A l \in DOMAIN padded_data : padded_data[l].set

\* what the reducer of the call writes at linear cell l, read from the
\* padded copy P: the reducer applied to the window of P at that cell
CellFrom(call, P, l) ==
    LET data == call.a[1]
        win  == Walk(P, call.a[2], Unravel(l - 1, data.shape))
    IN  CASE call.fn = "convolution" -> [set |-> TRUE, a |-> WeightedSum(win), b |-> NaN]
          [] call.fn = "sliding_mean" -> [set |-> TRUE, a |-> WeightedMean(win), b |-> NaN]
          [] call.fn = "sliding_median" -> [set |-> TRUE, a |-> WeightedMedian(win), b |-> NaN]
          [] call.fn = "sliding_standard_deviation" ->
                [set |-> TRUE, a |-> WeightedStd(win)[1], b |-> WeightedStd(win)[2]]
          [] call.fn = "sliding_sigma_clipping" ->
                LET c == ClipCell(win, data.flat[l], call.a[3], call.a[6], call.a[7], call.a[8])
                IN  [set |-> TRUE,
                     a |-> IF c.mask \/ c.mu = NaN THEN c.mu ELSE data.flat[l],
                     b |-> c.mask]

\* the call enters the engine: the padded copy is allocated
PadderStart ==
    /\ pc = "ready"
    /\ calls' = Append(calls, RunCall(op, self))
    /\ padded_data' = [l \in 1..Size(PaddedShape(RunCall(op, self))) |-> Unpadded]
    /\ pc' = "padding"
    /\ UNCHANGED <<op, args, self, exc, result, workers, buffer, clip>>

\* the padder, a single task, fills the next cell of the padded copy
PadderStep ==
    /\ pc = "padding"
    /\ \E l \in DOMAIN padded_data :
          /\ ~padded_data[l].set
          /\ \A m \in 1..(l - 1) : padded_data[m].set
          /\ padded_data' = [padded_data EXCEPT ![l] =
                                [set |-> TRUE, v |-> PadderOutput(calls[1]).flat[l]]]
    /\ UNCHANGED <<op, args, self, pc, exc, calls, result, workers, buffer, clip>>

\* the padder has finished: buffers allocated, workers given their ranges
Spawn ==
    /\ pc = "padding"
    /\ PadderFinished
    /\ \E T \in WorkerCounts(self.threads) :
          workers' = [w \in 1..T |-> Worker(w - 1, T, self.data.shape)]
    /\ buffer' = [l \in 1..Size(self.data.shape) |-> Unwritten]
    /\ pc' = "running"
    /\ UNCHANGED <<op, args, self, exc, calls, result, clip, padded_data>>

\* worker w reduces the window of the next cell of its range, read from the
\* padded copy, and writes the cell
WorkerStep(w) ==
    /\ pc = "running"
    /\ workers[w].at <= workers[w].hi
    /\ buffer' = [buffer EXCEPT ![workers[w].at] =
                                    CellFrom(calls[1], PaddedArray(calls[1]), workers[w].at)]
    /\ workers' = [workers EXCEPT ![w].at = @ + 1]
    /\ UNCHANGED <<op, args, self, pc, exc, calls, result, clip, padded_data>>

\* every worker has finished: the call returns and the result is stored
Join ==
    /\ pc = "running"
    /\ \A w \in DOMAIN workers : workers[w].at > workers[w].hi
    /\ result' = RunResult(op, self, Joined(calls[1], buffer))
    /\ pc' = "done"
    /\ UNCHANGED <<op, args, self, exc, calls, workers, buffer, clip, padded_data>>

NextThreads ==
    \/ PadderStart
    \/ PadderStep
    \/ Spawn
    \/ \E w \in DOMAIN workers : WorkerStep(w)
    \/ Join

SpecThreads == InitThreads /\ [][NextThreads]_vars

\* C14: for fixed data, kernel, border policy and pad value the output of
\* every sliding operation is the same for every thread count T >= 1, for
\* T = None, and for every interleaving of the workers: it is the output of
\* the single-threaded call.
C14_ThreadIndependent ==
    (Done /\ op \in SlidingOps) => result = ResultOf([args EXCEPT !.threads = Int_(1)])

\* three workers (threads=None on three cores) have filled the buffers of a
\* sigma-clipping of the 3x2 data, one row each
C14_Witness ==
    /\ Done
    /\ op = "SlidingSigmaClipping"
    /\ args.threads = None
    /\ args.data.shape = <<3, 2>>
    /\ Len(workers) = 3
    /\ \A w \in 1..3 : workers[w].hi - workers[w].lo = 1 /\ workers[w].at > workers[w].hi
    /\ \A l \in DOMAIN buffer : buffer[l].set
    /\ result.kind = "MaskedArray"

\* the outer-axis index ranges [RowLo(w), RowLo(w + 1)) of T workers are
\* contiguous, pairwise disjoint and cover exactly [0, s0)
RangesPartition(T, s0) ==
    /\ RowLo(0, T, s0) = 0
    /\ RowLo(T, T, s0) = s0
    /\ \A w \in 0..(T - 1) : RowLo(w, T, s0) <= RowLo(w + 1, T, s0)
    /\ \A i \in 0..(s0 - 1) :
          Cardinality({w \in 0..(T - 1) :
                          RowLo(w, T, s0) <= i /\ i < RowLo(w + 1, T, s0)}) = 1

\* the cells of the workers' ranges, as spawned
RangeCells(w) == workers[w].lo .. workers[w].hi

\* C24: for every outer-axis length s0 >= 0 and every thread budget T >= 1,
\* T > s0 included, the T index ranges are contiguous, pairwise disjoint and
\* cover exactly [0, s0); the workers' cell ranges are whole rows, pairwise
\* disjoint, and cover the output buffer; a worker only ever writes an
\* unwritten cell of its own range; when all workers have finished every
\* cell has been written (so exactly once).
C24_RangesPartition ==
    /\ [](\A T \in 1..(MaxThreads + 1) : \A s0 \in 0..(2 * MaxThreads) :
             RangesPartition(T, s0))
    /\ [](pc \in {"running", "done"} =>
            /\ \A l \in DOMAIN buffer :
                  Cardinality({w \in DOMAIN workers : l \in RangeCells(w)}) = 1
            /\ \A w \in DOMAIN workers :
                  /\ RangeCells(w) \subseteq DOMAIN buffer
                  /\ workers[w].lo = RowLo(w - 1, Len(workers), self.data.shape[1])
                                        * Size(Tail(self.data.shape)) + 1
                  /\ \A l \in RangeCells(w) : buffer[l].set <=> l < workers[w].at)
    /\ [][\A w \in DOMAIN workers :
            WorkerStep(w) =>
                /\ workers[w].at \in RangeCells(w)
                /\ ~buffer[workers[w].at].set
                /\ buffer'[workers[w].at].set
                /\ \A l \in DOMAIN buffer : l # workers[w].at => buffer'[l] = buffer[l]]_vars
    /\ [](pc = "done" => \A l \in DOMAIN buffer : buffer[l].set)

\* three workers on data of outer length 2 have finished: one worker had an
\* empty range and both cells are written
C24_Witness ==
    /\ pc = "done"
    /\ self.data.shape = <<2>>
    /\ Len(workers) = 3
    /\ \E w \in DOMAIN workers : RangeCells(w) = {}
    /\ \A l \in DOMAIN buffer : buffer[l].set

\* every worker has written the last cell of its range
WorkersFinished == \A w \in DOMAIN workers : workers[w].at > workers[w].hi

\* every cell of the padded copy is filled, with the padder's values
PaddedBuilt ==
    /\ calls # <<>>
    /\ Len(padded_data) = Size(PaddedShape(calls[1]))
    /\ \A l \in DOMAIN padded_data : padded_data[l].set
    /\ PaddedArray(calls[1]) = PadderOutput(calls[1])

\* C26: within one operation the steps are ordered padder, then the T
\* workers, then the join: while the padder builds the padded copy no worker
\* exists and no output cell is written; a worker steps only on the finished
\* padded copy and writes what the reducer gives on it; once the workers are
\* started neither the padded copy nor the input is written again; and the
\* result is handed to the caller only by the join, after every worker has
\* finished its range and every output cell is written.
C26_PadderWorkersJoin ==
    /\ [](pc \in {"ready", "padding"} => workers = <<>> /\ buffer = <<>> /\ result = NoResult)
    /\ [](pc \in {"running", "done"} => PaddedBuilt)
    /\ [][\A w \in DOMAIN workers : WorkerStep(w) =>
              /\ \A l \in DOMAIN padded_data : padded_data[l].set
              /\ buffer'[workers[w].at] = CellOutput(calls[1], workers[w].at)]_vars
    /\ [][padded_data' # padded_data => pc \in {"ready", "padding"} /\ workers = <<>>]_vars
    /\ [][self' = self /\ args' = args]_vars
    /\ [][(pc \in {"running", "done"}) => (calls' = calls)]_vars
    /\ [](result # NoResult =>
              /\ pc = "done"
              /\ WorkersFinished
              /\ \A l \in DOMAIN buffer : buffer[l].set
              /\ result = RunResult(op, self, Joined(calls[1], buffer)))
    /\ [][result' # result => pc = "running" /\ WorkersFinished /\ pc' = "done"]_vars

\* a finished standard deviation of the 3x2 data on three workers: the 5x4
\* padded copy is built, every worker has finished, the result is returned
C26_Witness ==
    /\ pc = "done"
    /\ op = "SlidingStandardDeviation"
    /\ self.data.shape = <<3, 2>>
    /\ Len(workers) = 3
    /\ WorkersFinished
    /\ PaddedBuilt
    /\ Len(padded_data) = 20
    /\ result.kind = "std_mean"

---------------------------------------------------------------------------
(* Properties of sliding sigma-clipping.  The clipping loop of one window  *)
(* is restated here over the set of the window's samples.                  *)

\* the centre of a set of kept samples, per center choice
CentreOf(K) == IF self.center_choice = "mean" THEN MeanOf(K) ELSE MedianAt(K)

\* x lies below mu - sigma_lower * sigma or above mu + sigma_upper * sigma,
\* sigma^2 = variance (compared on squares; a limit that is None never clips)
OutsideLimits(x, mu, variance) ==
    LET Beyond(dev, lim) ==
            RLt(F(0), dev) /\ RLt(RMul(RMul(lim, lim), variance), RMul(dev, dev))
    IN  \/ ~IsNone(self.sigma_lower) /\ Beyond(RSub(mu, x), self.sigma_lower.v)
        \/ ~IsNone(self.sigma_upper) /\ Beyond(RSub(x, mu), self.sigma_upper.v)

\* the samples of K that one iteration step clips
ClippedBy(K) == {e \in K : OutsideLimits(e.x, CentreOf(K), VarianceOf(K))}

\* the loop stops before step number it + 1: fewer than 2 kept samples,
\* max_iters steps performed, or nothing to clip (convergence)
Stops(K, it) ==
    \/ Cardinality(K) < 2
    \/ ~IsNone(self.max_iters) /\ it >= self.max_iters.v.n
    \/ ClippedBy(K) = {}

\* the kept set when the loop stops, having performed it steps so far
RECURSIVE KeptAfter(_, _)
KeptAfter(K, it) == IF Stops(K, it) THEN K ELSE KeptAfter(K \ ClippedBy(K), it + 1)

FinalKept(o) == KeptAfter(WindowAt(o), 0)

\* the final centre mu of the window at o
FinalCentre(o) == CentreOf(FinalKept(o))

\* the window's own centre sample: the one under the kernel's centre
IsOwn(e) == e.j = HalfWidths(self.kernel.shape)

\* the own sample was among the samples clipped by the time the loop stopped
OwnClipped(o) == \E e \in WindowAt(o) \ FinalKept(o) : IsOwn(e)

OwnIsNaN(o) == Cell(self.data, o) = NaN

ClipCase == Done /\ op = "SlidingSigmaClipping" /\ BorderDefined

Replaced(o) == OwnClipped(o) \/ OwnIsNaN(o)

OwnKept(o) == \E e \in FinalKept(o) : IsOwn(e)

---------------------------------------------------------------------------
(* The clipping loop of one window, one iteration step at a time           *)
(* (spec.md 4.3.5): compute the centre and the scale of the kept samples,  *)
(* clip the samples outside the limits, stop or repeat.                    *)

\* cap on the iteration steps of one window (above any window's size)
MaxSteps == 10

\* the samples one iteration step clips from each set of kept samples of the
\* window W (the clipping rule of the window, tabulated over its subsets)
ClipTable(W) == [K \in SUBSET W |-> ClippedBy(K)]

\* step 5 filtering the whole window again instead of the kept set
KeepStep_whole_window(K) == WindowAt(clip.o) \ clip.clipped[K]

\* step 5 with nothing removed from the kept set
KeepStep_nothing_removed(K) == K

\* step 5: remove the clipped samples from the kept set
KeepStep(K) == K \ clip.clipped[K]

\* a sigma-clipping call with the given limits, iteration limit and centre
ClipInput(data, kernel, bp, lo, up, mi, cc) ==
    [Input("SlidingSigmaClipping", data, kernel, bp)
        EXCEPT !.sigma_lower = lo, !.sigma_upper = up, !.sigma = Float(F(1)),
               !.max_iters = mi, !.center_choice = cc]

\* 3-sample windows under every limit, centre choice and iteration limit
InputsClip1D ==
    {ClipInput(Arr1(<<F(0), F(1), F(3)>>), k, bp, lo, up, mi, cc) :
        k \in {KInt(3), KArray(<<3>>, "float64", <<1, 0, 1>>)},
        bp \in {<<"constant", F(0)>>, <<"reflect", F(0)>>},
        lo \in {_USE_SIGMA, None, Float(F(0))},
        up \in {_USE_SIGMA, Float(F(0))},
        mi \in {None, Int_(0), Int_(1)},
        cc \in {"median", "mean"}}

\* 5-sample windows with an outlier, which take several steps to converge
InputsClipWide ==
    {ClipInput(Arr1(<<F(0), F(0), F(1), F(10)>>), KInt(5), <<"constant", F(0)>>,
               lo, _USE_SIGMA, mi, cc) :
        lo \in {_USE_SIGMA, None}, mi \in {None, Int_(1), Int_(2)},
        cc \in {"median", "mean"}}

InputsClip == InputsClip1D \cup InputsClipWide

\* the object is constructed; the engine is about to process its windows
InitClip ==
    /\ args \in InputsClip
    /\ op = args.cls
    /\ self = Constructed(args)
    /\ pc = "ready"
    /\ exc = NoExc
    /\ calls = <<>>
    /\ result = NoResult
    /\ workers = <<>>
    /\ buffer = <<>>
    /\ clip = NoClip
    /\ padded_data = <<>>

\* the loop of the window at o starts: the kept set is the window's non-NaN
\* samples of non-zero weight
ClipEnter(o) ==
    /\ pc = "ready"
    /\ clip' = [o |-> o, K |-> WindowAt(o), steps |-> 0,
                clipped |-> ClipTable(WindowAt(o))]
    /\ pc' = "clipping"
    /\ UNCHANGED <<op, args, self, exc, calls, result, workers, buffer, padded_data>>

\* the three ways the loop stops
Converged   == clip.clipped[clip.K] = {}
IterLimit   == ~IsNone(self.max_iters) /\ clip.steps >= self.max_iters.v.n
TooFewKept  == Cardinality(clip.K) < 2

\* the loop's exit test before each step
LoopExit == TooFewKept \/ IterLimit \/ Converged

\* one iteration step that clips something: the clipped samples leave the
\* kept set
ClipStep ==
    /\ pc = "clipping"
    /\ ~LoopExit
    /\ clip.steps < MaxSteps
    /\ clip' = [clip EXCEPT !.K = KeepStep(clip.K), !.steps = @ + 1]
    /\ UNCHANGED <<op, args, self, pc, exc, calls, result, workers, buffer, padded_data>>

\* the loop stops: converged, max_iters reached, or fewer than 2 kept samples
ClipStop ==
    /\ pc = "clipping"
    /\ LoopExit
    /\ pc' = "stopped"
    /\ UNCHANGED <<op, args, self, exc, calls, result, workers, buffer, clip, padded_data>>

NextClip ==
    \/ \E o \in Coords(self.data.shape) : ClipEnter(o)
    \/ ClipStep
    \/ ClipStop

\* the engine runs the loop of a window it has entered to its end: neither
\* the next step nor the exit is postponed forever
SpecClip == InitClip /\ [][NextClip]_vars /\ WF_vars(ClipStep) /\ WF_vars(ClipStop)

\* C18: for every window, every sigma_lower / sigma_upper and every center
\* choice the clipping loop, once entered, terminates; it stops at the first
\* step at which no sample is newly clipped, or when max_iters steps have
\* been performed, or when fewer than 2 kept samples remain, never going on
\* past such a point; with max_iters = None it still stops, after no more
\* steps than the window has samples, and the kept set it stops at is the
\* one the output is computed from.
C18_LoopTerminates ==
    /\ (pc = "clipping") ~> (pc = "stopped")
    /\ [](pc = "stopped" => (Converged \/ IterLimit \/ TooFewKept))
    /\ [][ClipStep => ~(Converged \/ IterLimit \/ TooFewKept)]_vars
    /\ [](pc \in {"clipping", "stopped"} =>
            /\ clip.steps + Cardinality(clip.K) <= Cardinality(WindowAt(clip.o))
            /\ LoopExit <=> Stops(clip.K, clip.steps))
    /\ [](pc = "stopped" => clip.K = FinalKept(clip.o))

\* a loop without iteration limit has stopped by convergence after two
\* clipping steps, with at least 2 samples still kept
C18_Witness ==
    /\ pc = "stopped"
    /\ IsNone(self.max_iters)
    /\ clip.steps = 2
    /\ Converged
    /\ ~TooFewKept

\* C23: in the clipping loop of one window the kept set after every step is
\* a subset of the kept set before it; every step either strictly shrinks
\* the kept set or is the step at which the loop stops; the kept set never
\* holds a sample from outside the window, and a sample that has left it is
\* never in it again.
C23_KeptSetShrinks ==
    /\ [][pc = "clipping" =>
            /\ clip'.K \subseteq clip.K
            /\ clip'.K # clip.K \/ pc' = "stopped"]_vars
    /\ [][ClipStep => (clip'.K = clip.K \ ClippedBy(clip.K) /\ ClippedBy(clip.K) # {})]_vars
    /\ [](pc \in {"clipping", "stopped"} => clip.K \subseteq WindowAt(clip.o))

\* a loop has made one step that removed a sample and is about to make
\* another
C23_Witness ==
    /\ pc = "clipping"
    /\ clip.steps = 1
    /\ clip.K # WindowAt(clip.o)
    /\ clip.K \subseteq WindowAt(clip.o)
    /\ ~LoopExit

---------------------------------------------------------------------------
(* Properties of the engine's error reporting.                             *)

\* the loop of the window at o was stopped by max_iters alone: at least 2
\* samples are kept and a further step would still clip some
StoppedByLimit(o) ==
    /\ op = "SlidingSigmaClipping"
    /\ Cardinality(FinalKept(o)) >= 2
    /\ ClippedBy(FinalKept(o)) # {}

\* the engine fails only on an undefined border policy or a refused thread
\* count, never on the values it computes with
NoNumericalError ==
    exc.at = "_bindings" =>
        \/ exc.type = "BorderError" /\ ~BorderDefined
        \/ exc.type = "ConfigError" /\ ~IsNone(args.threads) /\ args.threads.v.n < 1

ThreadCountBelowOne == op \in SlidingOps /\ ~IsNone(args.threads) /\ args.threads.v.n < 1

---------------------------------------------------------------------------
(* Every public entry point that takes a thread budget: the facade classes *)
(* and the module-level functions of the package.                          *)

Functions ==
    {"convolution", "sliding_mean", "sliding_median", "sliding_standard_deviation",
     "sliding_sigma_clipping"}

\* the engine call a module-level function makes: its parameters forwarded
\* positionally, threads last
function_call_default_one(fn, a) ==
    IF fn = "sliding_sigma_clipping"
    THEN Call(fn, <<a.data, a.kernel, a.center_choice, a.borders, a.pad_value,
                    a.sigma_upper, a.sigma_lower, a.max_iters, Given(a.threads, Int_(1))>>)
    ELSE Call(fn, <<a.data, a.kernel, a.borders, a.pad_value, Given(a.threads, Int_(1))>>)

function_call(fn, a) ==
    IF fn = "sliding_sigma_clipping"
    THEN Call(fn, <<a.data, a.kernel, a.center_choice, a.borders, a.pad_value,
                    a.sigma_upper, a.sigma_lower, a.max_iters, Given(a.threads, None)>>)
    ELSE Call(fn, <<a.data, a.kernel, a.borders, a.pad_value, Given(a.threads, None)>>)

\* sliding_mean and sliding_standard_deviation forward five arguments where
\* the classes forward six (neumaier before threads)
ShortCall(call) ==
    call.fn \in {"sliding_mean", "sliding_standard_deviation"} /\ Len(call.a) = 5

\* the call as the engine runs it when it accepts the short form
Completed(call, neumaier) ==
    IF ShortCall(call)
    THEN Call(call.fn, <<call.a[1], call.a[2], call.a[3], call.a[4], neumaier, call.a[5]>>)
    ELSE call

\* what a module-level function returns: the engine's return value as it is
FunctionResult(fn, ret) ==
    IF fn \in {"sliding_standard_deviation", "sliding_sigma_clipping"}
    THEN [kind |-> "tuple", a |-> ret[1], b |-> ret[2]]
    ELSE [kind |-> "ndarray", a |-> ret, b |-> NoArray]

ThreadArgs == {Omitted, None, Int_(0), Int_(1), Int_(2)}

\* constructor calls with and without the threads argument, among them an
\* even kernel and a call with both sigmas None
InputsEntryClasses ==
    {[Input(cls, d, k, bp) EXCEPT !.threads = t, !.sigma = Float(F(1)), !.sigma_lower = lo,
                                  !.sigma_upper = lo] :
        cls \in SlidingOps, d \in {Arr1(<<F(0), F(1), F(3)>>), Arr1(<<F(1)>>)},
        k \in {KInt(3), KInt(2)}, bp \in {<<"reflect", F(0)>>, <<"None", F(0)>>},
        t \in ThreadArgs, lo \in {_USE_SIGMA, None}}

\* module-level calls with and without the threads argument
InputsEntryFunctions ==
    {[Input(fn, d, AsArray(KArray(<<3>>, "float64", <<1, 1, 1>>)), bp)
        EXCEPT !.threads = t, !.sigma_lower = Float(F(1)), !.sigma_upper = Float(F(1))] :
        fn \in Functions, d \in {Arr1(<<F(0), F(1), F(3)>>), Arr1(<<F(1)>>)},
        bp \in {<<"reflect", F(0)>>, <<"constant", F(0)>>}, t \in ThreadArgs}

InitEntry ==
    /\ args \in InputsEntryClasses \cup InputsEntryFunctions
    /\ op = args.cls
    /\ self = NewObject
    /\ pc = IF args.cls \in Functions THEN "call" ELSE "init"
    /\ exc = NoExc
    /\ calls = <<>>
    /\ result = NoResult
    /\ workers = <<>>
    /\ buffer = <<>>
    /\ clip = NoClip
    /\ padded_data = <<>>

\* the module-level function forwards its arguments and returns what the
\* engine returns
FunctionReturn ==
    /\ pc = "call"
    /\ ~ThreadsRejected(function_call(op, args))
    /\ ~ReflectUndefined(args.data, args.kernel, args.borders)
    /\ calls' = <<function_call(op, args)>>
    /\ \E neumaier \in BOOLEAN :
          result' = FunctionResult(op, Rust(Completed(calls'[1], neumaier)))
    /\ pc' = "returned"
    /\ UNCHANGED <<op, args, self, exc, workers, buffer, clip, padded_data>>

\* the engine refuses the call: a thread count below 1, a reflect border
\* undefined for the shape, or (a build may) the five-argument form
FunctionRaises ==
    /\ pc = "call"
    /\ calls' = <<function_call(op, args)>>
    /\ \/ ThreadsRejected(calls'[1]) /\ exc' = Exc("ConfigError", "_bindings")
       \/ /\ ReflectUndefined(args.data, args.kernel, args.borders)
          /\ exc' = Exc("BorderError", "_bindings")
       \/ ShortCall(calls'[1]) /\ exc' = Exc("TypeError", "_bindings")
    /\ pc' = "failed"
    /\ UNCHANGED <<op, args, self, result, workers, buffer, clip, padded_data>>

NextEntry == Next \/ FunctionReturn \/ FunctionRaises

SpecEntry == InitEntry /\ [][NextEntry]_vars

\* the thread budget the engine was called with
CalledThreads == TheCall.a[Len(TheCall.a)]

EngineCalled == Len(calls) = 1

---------------------------------------------------------------------------
(* The arrays handed to the engine.                                        *)

\* the data and the kernel of the engine call
CalledData   == TheCall.a[1]
CalledKernel == TheCall.a[2]

\* C22: with force_contiguous=True the data handed to the engine is
\* C-contiguous and has element type float64 whatever the element type of
\* the input array; with force_contiguous=False the data and the kernel (as
\* _check_kernel returned it) are handed over unchanged.
C22_Original ==
    (EngineCalled /\ op \in Classes) =>
        /\ args.force_contiguous =>
              /\ CalledData.contig
              /\ CalledData.dtype = "float64"
        /\ ~args.force_contiguous =>
              /\ CalledData = args.data
              /\ CalledKernel = _check_kernel(args.data, args.kernel)

\* the part of C22 the code keeps: contiguity is forced, values, shape and
\* element type are left as they were
C22_ContiguousOnly ==
    (EngineCalled /\ op \in Classes) =>
        /\ args.force_contiguous =>
              /\ CalledData = ascontiguousarray(args.data)
              /\ CalledKernel = ascontiguousarray(_check_kernel(args.data, args.kernel))
              /\ CalledData.dtype = args.data.dtype
        /\ ~args.force_contiguous =>
              /\ CalledData = args.data
              /\ CalledKernel = _check_kernel(args.data, args.kernel)

\* a sliding mean of the float32 test data built with force_contiguous=True
\* has run: the engine received float32 data
C22_Witness ==
    /\ pc = "done"
    /\ op = "SlidingMean"
    /\ args.force_contiguous
    /\ args.data = TestData
    /\ CalledData.contig
    /\ CalledData.dtype = "float32"

=============================================================================
